---- MODULE Spec2Model ----
(***************************************************************************)
(* Terminal session protocol of the `edit` binary (src/bin/edit/main.rs):  *)
(* the capability negotiation of setup_terminal, the lifetime of the       *)
(* RestoreModes guard, and the interactive loop of run.                    *)
(*                                                                         *)
(* Text is modelled as a sequence of one-character strings, so that the    *)
(* splitting and number parsing of the code are computed, not assumed.     *)
(* A u32 colour is the record [a |-> bits 24..31, rgb |-> bits 0..23],     *)
(* because TLC's integers are 32-bit signed.                               *)
(***************************************************************************)
EXTENDS Integers, Sequences, FiniteSets, TLC

VARIABLES
    pc,               \* position in run / setup_terminal
    done,             \* setup_terminal: `done`
    osc_buffer,       \* setup_terminal: `osc_buffer`
    indexed_colors,   \* setup_terminal: `indexed_colors`
    color_responses,  \* setup_terminal: `color_responses`
    ambiguous_width,  \* setup_terminal: `ambiguous_width`
    vt_stream,        \* tokens of the current read not yet consumed
    reads,            \* number of sys::read_stdin calls made by setup_terminal
    lastTok,          \* the token consumed by the latest step (history)
    indexed_replies,  \* OSC 4 replies for an index 0..15 counted so far (history)
    sample,           \* the colour samples the first reply was built from (history)
    theme,            \* the Tui's active indexed colours
    unicode_width,    \* the ambiguous width in effect (unicode module)
    reflows,          \* number of documents.reflow_all() calls
    build,            \* how the binary was built: debug_assertions, panic strategy
    restore_alive,    \* run's `_restore` guard exists
    teardowns,        \* times the RestoreModes sequence was written
    outcome,          \* how the process ended, "running" before that
    pending,          \* input events of the current read still to be decoded
    needs_settling,   \* tui.needs_settling()
    exit,             \* state.exit
    iters,            \* reads made by the interactive loop
    frames,           \* frames written by the interactive loop
    renders,          \* tui.render calls made by the interactive loop
    state,            \* the fields of `state: State` the loop and draw use
    clipboard,        \* tui.clipboard: payload length and wants_host_sync
    SCRATCH_ARENA_CAPACITY, \* the constant the target's pointer width selects
    batch,            \* number of input events the current read decodes to (history)
    dispatched,       \* per draw call made while draining it: was there an event (history)
    pass,             \* what draw_handle_clipboard_change saw and showed in the latest pass (history)
    payload,          \* the clipboard's payload: decision taken, frames and broadcasts (history)
    output,           \* the side-channel updates of the latest frame written (history)
    frame_log,        \* per frame written: the active name and the parts of the output (history)
    syncs,            \* times a pass set state.osc_clipboard_sync to true (history)
    probes,           \* times setup_terminal wrote its mode and query sequence
    settles,          \* passes of the settle loop in the current iteration, counted up to MaxSettles
    run_err,          \* the call whose Err run returned with `?`, "none" without one
    syntax            \* a SyntaxHighlighter, the line given to it and what it answered

logVars == <<frame_log, syncs, probes, settles, run_err>>

uiVars == <<renders, state, clipboard, SCRATCH_ARENA_CAPACITY, syntax, batch,
            dispatched, pass, payload, output, logVars>>

runVars == <<build, restore_alive, teardowns, outcome, pending, needs_settling,
             exit, iters, frames, uiVars>>

negVars == <<done, osc_buffer, indexed_colors, color_responses, ambiguous_width,
             vt_stream, reads, lastTok, indexed_replies, sample, theme, unicode_width, reflows>>

----------------------------------------------------------------------------
(* Bounds of the model. *)

\* reads delivered to setup_terminal before the stream must close
MaxReads == 3
\* the same, for the terminal that answers in whole batches
MaxThemeReads == 5
\* the same, for the terminal whose replies arrive in fragments
MaxFragmentReads == 3
\* reads delivered to setup_terminal when the whole program is run
MaxRunReads == 2
\* reads of the interactive loop before the input stream must close
MaxIters == 2
\* input events one read of the interactive loop decodes to
MaxEvents == 2
\* the same two bounds, for the loop with documents and exit requests
MaxLoopIters == 2
MaxLoopEvents == 2
\* the same two bounds, for the loop with the clipboard dialog
MaxClipIters == 2
MaxClipEvents == 2
\* settle passes of one iteration that are told apart
MaxSettles == 2
\* the same two bounds as for the loop, for the loop run under fairness
MaxSettleIters == 2
MaxSettleEvents == 2
\* the same two bounds as for the loop, for the session that switches tabs
MaxTabIters == 3
MaxTabEvents == 1
\* bytes of a file name, and reads of the loop in the session that shows it
MaxNameLen == 2
MaxNameIters == 1
\* the same two bounds as for the loop, for the session that is asked to exit
MaxExitIters == 2
MaxExitEvents == 3
\* the same two bounds as for the loop, for the session that closes tabs
MaxCloseIters == 2
MaxCloseEvents == 2
\* files open in the session that switches between tabs, and its loop bounds
MaxOpen == 10
MaxSwitchIters == 2
MaxSwitchEvents == 2
\* the highest list item the user points at in the folder browser, and the
\* loop bounds of the session that browses
MaxEntry == 2
MaxBrowseIters == 2
MaxBrowseEvents == 2
\* the same two bounds as for the loop, for the session that uses the AI dock
MaxDockIters == 3
MaxDockEvents == 2
\* bytes of a line given to the syntax highlighter
MaxLineLen == 3

----------------------------------------------------------------------------
(* Text helpers: str::split_terminator, str::starts_with, from_str_radix. *)

RECURSIVE SplitAll(_, _)
SplitAll(s, sep) ==
    IF \A i \in 1..Len(s) : s[i] # sep
    THEN <<s>>
    ELSE LET i == CHOOSE k \in 1..Len(s) :
                     s[k] = sep /\ \A j \in 1..(k - 1) : s[j] # sep
         IN  <<SubSeq(s, 1, i - 1)>> \o SplitAll(SubSeq(s, i + 1, Len(s)), sep)

\* str::split_terminator: like split, but a trailing empty piece is dropped
SplitTerminator(s, sep) ==
    LET p == SplitAll(s, sep)
    IN  IF p[Len(p)] = <<>> THEN SubSeq(p, 1, Len(p) - 1) ELSE p

\* iter.next().unwrap_or(default) for the k-th call of next()
NextOr(pieces, k, default) == IF k <= Len(pieces) THEN pieces[k] ELSE default

StartsWith(s, prefix) ==
    Len(s) >= Len(prefix) /\ SubSeq(s, 1, Len(prefix)) = prefix

DigitChars == <<"0", "1", "2", "3", "4", "5", "6", "7", "8", "9",
                "a", "b", "c", "d", "e", "f">>
UpperDigitChars == <<"0", "1", "2", "3", "4", "5", "6", "7", "8", "9",
                     "A", "B", "C", "D", "E", "F">>

\* char::to_digit(radix): the digit's value, or -1
ToDigit(c, radix) ==
    IF \E k \in 1..radix : DigitChars[k] = c \/ UpperDigitChars[k] = c
    THEN (CHOOSE k \in 1..radix : DigitChars[k] = c \/ UpperDigitChars[k] = c) - 1
    ELSE -1

RECURSIVE DigitsValue(_, _, _)
\* value of a digit string, or -1 when a character is no digit; acc starts at 0
DigitsValue(s, radix, acc) ==
    IF s = <<>> THEN acc
    ELSE IF ToDigit(Head(s), radix) < 0 THEN -1
    ELSE DigitsValue(Tail(s), radix, acc * radix + ToDigit(Head(s), radix))

\* usize::from_str_radix: Err (-1) on the empty string, on a lone sign, on a
\* '-' and on a non-digit; one leading '+' is accepted
FromStrRadix(s, radix) ==
    IF s = <<>> THEN -1
    ELSE IF Len(s) = 1 /\ s[1] \in {"+", "-"} THEN -1
    ELSE IF s[1] = "+" THEN DigitsValue(Tail(s), radix, 0)
    ELSE DigitsValue(s, radix, 0)

----------------------------------------------------------------------------
(* Bit operations on values below 2^24. *)

RECURSIVE BitOr(_, _)
BitOr(x, y) ==
    IF x = 0 THEN y
    ELSE IF y = 0 THEN x
    ELSE (IF x % 2 = 1 \/ y % 2 = 1 THEN 1 ELSE 0) + 2 * BitOr(x \div 2, y \div 2)

----------------------------------------------------------------------------
(* The colour table. *)

Color(a, rgb) == [a |-> a, rgb |-> rgb]

\* framebuffer::DEFAULT_THEME: 16 indexed colours, then Background, Foreground
DEFAULT_THEME ==
    [i \in 0..17 |->
        Color(255, <<0, 2174142, 3845695, 4889278, 12471584, 12473531,
                     11708160, 12500670, 8421504, 3161855, 5368408,
                     4508159, 16738863, 16741628, 15786240, 16777215,
                     0, 12500670>>[i + 1])]

IndexedBackground == 16
IndexedForeground == 17

\* indexed_colors.len()
IndexedColorsLen == Cardinality(DOMAIN DEFAULT_THEME)

----------------------------------------------------------------------------
(* setup_terminal: one OSC reply. *)

\* mutant: the high byte of the sample, without rounding
Round16To8Truncating(val) == val \div 256

\* Round from 16 bits to 8 bits.
Round16To8(val) == (val * 255 + 32767) \div 65535

RECURSIVE FoldPartsShiftingLeft(_, _)
\* mutant: each part is shifted in from the low byte, so the first part ends high
FoldPartsShiftingLeft(parts, rgb) ==
    IF parts = <<>> THEN rgb
    ELSE LET part == Head(parts)
             val  == FromStrRadix(part, 16)
         IN  IF Len(part) \in {2, 4} /\ val >= 0
             THEN FoldPartsShiftingLeft(Tail(parts),
                    BitOr((rgb * 256) % 16777216,
                          IF Len(part) = 4 THEN (val * 255 + 32767) \div 65535 ELSE val))
             ELSE FoldPartsShiftingLeft(Tail(parts), rgb)

RECURSIVE FoldParts(_, _)
\* the `for part in rgb_parts` loop: rgb after the parts, starting from rgb
FoldParts(parts, rgb) ==
    IF parts = <<>> THEN rgb
    ELSE LET part == Head(parts)
             val  == FromStrRadix(part, 16)
         IN  IF Len(part) \in {2, 4} /\ val >= 0
             THEN FoldParts(Tail(parts),
                            BitOr(rgb \div 256,
                                  (IF Len(part) = 4 THEN Round16To8(val) ELSE val) * 65536))
             ELSE FoldParts(Tail(parts), rgb)

\* the slot selected by the first fields of the reply, or -1 (`continue`)
OscSlot(splits) ==
    LET key == NextOr(splits, 1, <<>>)
    IN  IF key = <<"4">>
        THEN LET val == FromStrRadix(NextOr(splits, 2, <<>>), 10)
             IN  IF val >= 0 /\ val < 16 THEN val ELSE -1
        ELSE IF key = <<"1", "0">> THEN IndexedForeground
        ELSE IF key = <<"1", "1">> THEN IndexedBackground
        ELSE -1

\* the field after the slot selector
OscColorParam(splits) ==
    NextOr(splits, IF NextOr(splits, 1, <<>>) = <<"4">> THEN 3 ELSE 2, <<>>)

RgbPrefix == <<"r", "g", "b", ":">>

RgbParts(color_param) ==
    LET iter == SplitTerminator(SubSeq(color_param, 5, Len(color_param)), "/")
    IN  [k \in 1..3 |-> NextOr(iter, k, <<"0">>)]

\* mutant: the accumulator is not prefixed to the terminating fragment
OscTextWithoutAccumulator(s, data) == data

\* the text a non-partial reply is parsed from: the accumulator is prefixed
OscText(s, data) == IF s.osc_buffer # <<>> THEN s.osc_buffer \o data ELSE data

\* Token::Osc { data, partial } applied to the negotiation state s
HandleOsc(s, data, partial) ==
    IF partial
    THEN [s EXCEPT !.osc_buffer = s.osc_buffer \o data]
    ELSE LET pushed == IF s.osc_buffer # <<>> THEN s.osc_buffer \o data ELSE s.osc_buffer
             text   == OscText(s, data)
             splits == SplitTerminator(text, ";")
             slot   == OscSlot(splits)
             param  == OscColorParam(splits)
         IN  IF slot < 0 \/ ~StartsWith(param, RgbPrefix)
             THEN [s EXCEPT !.osc_buffer = pushed]
             ELSE [s EXCEPT
                     !.indexed_colors[slot] = Color(255, FoldParts(RgbParts(param), 0)),
                     !.color_responses = s.color_responses + 1,
                     !.osc_buffer = <<>>]

\* the slot a token makes the code write and count, or -1
CountedSlot(s, token) ==
    IF token.kind = "Osc" /\ ~token.partial
    THEN LET splits == SplitTerminator(OscText(s, token.data), ";")
         IN  IF StartsWith(OscColorParam(splits), RgbPrefix) THEN OscSlot(splits) ELSE -1
    ELSE -1

\* mutant: the column itself is taken as the width
HandleCsiColumnAsWidth(s, csi) ==
    IF csi.final_byte = "c" THEN [s EXCEPT !.done = TRUE]
    ELSE IF csi.final_byte = "R" THEN [s EXCEPT !.ambiguous_width = csi.params[2]]
    ELSE s

\* mutant: any CSI that is not a cursor-position reply ends negotiation
HandleCsiAnyFinalEnds(s, csi) ==
    IF csi.final_byte = "R" THEN [s EXCEPT !.ambiguous_width = csi.params[2] - 1]
    ELSE [s EXCEPT !.done = TRUE]

\* Token::Csi(csi)
HandleCsi(s, csi) ==
    IF csi.final_byte = "c" THEN [s EXCEPT !.done = TRUE]
    ELSE IF csi.final_byte = "R" THEN [s EXCEPT !.ambiguous_width = csi.params[2] - 1]
    ELSE s

\* one iteration of `while let Some(token) = vt_stream.next()`
HandleToken(s, token) ==
    IF token.kind = "Csi" THEN HandleCsi(s, token)
    ELSE IF token.kind = "Osc" THEN HandleOsc(s, token.data, token.partial)
    ELSE s

----------------------------------------------------------------------------
(* Tokens of vt::Parser and the reads the terminal can deliver. *)

Csi(final_byte, p1, p2) ==
    [kind |-> "Csi", final_byte |-> final_byte, params |-> <<p1, p2>>,
     data |-> <<>>, partial |-> FALSE]
Osc(data, partial) ==
    [kind |-> "Osc", final_byte |-> "", params |-> <<0, 0>>,
     data |-> data, partial |-> partial]
Text == [kind |-> "Text", final_byte |-> "", params |-> <<0, 0>>,
         data |-> <<>>, partial |-> FALSE]
NoToken == [kind |-> "None", final_byte |-> "", params |-> <<0, 0>>,
            data |-> <<>>, partial |-> FALSE]

\* decimal text of an index 0..19
Dec(i) == IF i < 10 THEN <<DigitChars[i + 1]>> ELSE <<"1", DigitChars[i - 9]>>

Rgb(r, g, b) == RgbPrefix \o r \o <<"/">> \o g \o <<"/">> \o b
Reply4(i, color) == <<"4", ";">> \o Dec(i) \o <<";">> \o color
Reply10(color) == <<"1", "0", ";">> \o color
Reply11(color) == <<"1", "1", ";">> \o color

\* a colour component as the terminal formats it: 4 or 2 hexadecimal digits
HexChar(d) == DigitChars[(d % 16) + 1]
Hex4(v) == << HexChar(v \div 4096), HexChar(v \div 256), HexChar(v \div 16), HexChar(v) >>
Hex2(v) == << HexChar(v \div 16), HexChar(v) >>
HexOf(c) == IF c.bits = 16 THEN Hex4(c.v) ELSE Hex2(c.v)

NoSample == <<>>

\* the colour every batched reply carries: rgb:ffff/8000/0000
BatchColor == Rgb(<<"f", "f", "f", "f">>, <<"8", "0", "0", "0">>, <<"0", "0", "0", "0">>)

\* the replies to one OSC 4 query for the indices lo..hi, in one read
IndexedBatch(lo, hi) == [k \in 1..(hi - lo + 1) |-> Osc(Reply4(lo + k - 1, BatchColor), FALSE)]

\* well-formed colour replies, 16-bit and 8-bit samples
GoodReplies ==
    { Reply4(1, Rgb(<<"f", "f", "f", "f">>, <<"0", "0", "8", "0">>, <<"0", "0", "8", "1">>)),
      Reply4(1, Rgb(<<"1", "2">>, <<"a", "b">>, <<"E", "F">>)),
      Reply10(Rgb(<<"f", "f">>, <<"0", "0">>, <<"8", "0">>)),
      Reply11(Rgb(<<"f", "f", "0", "0">>, <<"5", "6", "7", "8">>, <<"9", "a", "b", "c">>)) }

\* replies with a slot selector and rgb: whose colour field does not parse
BadColorReplies ==
    { Reply4(1, Rgb(<<"g", "g">>, <<"0", "0">>, <<"0", "0">>)),
      Reply4(1, Rgb(<<"1", "2", "3">>, <<"4", "5">>, <<"6", "7">>)),
      Reply4(2, RgbPrefix \o <<"f", "f", "/", "f", "f">>),
      Reply10(Rgb(<<"f", "f">>, <<"x", "y", "z", "w">>, <<"f", "f">>)) }

\* replies the selector or the rgb: test rejects
RejectedReplies ==
    { <<"5", ";">> \o Rgb(<<"f", "f">>, <<"f", "f">>, <<"f", "f">>),
      Reply4(16, Rgb(<<"f", "f">>, <<"f", "f">>, <<"f", "f">>)),
      <<"4", ";", "1", ";", "r", "g", "x", ":", "0", "0">>,
      <<>> }

\* payloads that arrive in fragments: an accepted reply, a rejected one
FragmentedReplies ==
    { Reply4(3, Rgb(<<"0", "0">>, <<"8", "0">>, <<"f", "f">>)),
      <<"5", "2", ";", "c", ";">> }

\* every way to cut payload p in two
Cuts(p) == 0..Len(p)

FgBgBatch == <<Osc(Reply10(BatchColor), FALSE), Osc(Reply11(BatchColor), FALSE)>>

\* fragments as the tokenizer delivers them when a read ends inside an OSC
FragmentReads ==
    { <<Osc(<<"4", ";", "3">>, TRUE)>>,
      <<Osc(<<";">> \o Rgb(<<"0", "0">>, <<"8", "0">>, <<"f", "f">>), FALSE)>>,
      <<Osc(<<"4", ";", "3", ";", "r", "g", "b", ":", "0", "0", "/">>, TRUE),
        Osc(<<"8", "0", "/", "f", "f">>, FALSE)>>,
      <<Osc(<<"5", "2">>, TRUE)>>,
      <<Osc(<<";", "c", ";">>, FALSE)>> }

\* what one read of setup_terminal can deliver
ReadMenu ==
    { IndexedBatch(0, 7), FgBgBatch,
      <<Csi("R", 1, 3)>>, <<Csi("R", 1, 1)>>,
      <<Csi("c", 1, 2)>>, <<Csi("R", 1, 2), Csi("c", 61, 6)>>,
      <<Csi("c", 1, 2), Osc(Reply10(BatchColor), FALSE)>>,
      <<Csi("A", 0, 0), Text>>, <<>> }
    \cup { <<Osc(p, FALSE)>> : p \in GoodReplies \cup BadColorReplies \cup RejectedReplies }
    \cup FragmentReads

\* reads made of whole batches of colour replies only
ThemeMenu ==
    { IndexedBatch(0, 7), IndexedBatch(8, 15), IndexedBatch(8, 14), FgBgBatch,
      <<Osc(Reply10(BatchColor), FALSE)>>, <<Csi("R", 1, 3)>>,
      <<Csi("c", 1, 2)>>, <<Csi("c", 1, 2), Osc(Reply11(BatchColor), FALSE)>>,
      <<Osc(Reply4(2, Rgb(<<"g", "g">>, <<"0", "0">>, <<"0", "0">>)), FALSE)>> }

----------------------------------------------------------------------------
(* syntax.rs: the highlighter. A line is a sequence of one-character        *)
(* strings over LineChars; the patterns are matched as the regex crate      *)
(* matches them, restricted to what these characters can spell.             *)

\* the characters of a line: letters, a digit, and the punctuation the
\* patterns look for
LineChars == { "f", "n", "u", "8", "(", " ", "/", "\"" }

\* \w of the patterns, [a-zA-Z_] of the function pattern, \d
WordChars == { "f", "n", "u", "8" }
AlphaChars == { "f", "n", "u" }
DigitCharsOfLine == { "8" }

\* \b at byte offset i (0-based) of text: exactly one side is a word character
WordBoundary(text, i) ==
    LET before == i > 0 /\ text[i] \in WordChars
        after  == i < Len(text) /\ text[i + 1] \in WordChars
    IN  before # after

\* text continues with `word` at offset i
SpellsAt(text, i, word) ==
    /\ i + Len(word) <= Len(text)
    /\ \A k \in 1..Len(word) : text[i + k] = word[k]

\* the end of the longest run of characters of `chars` that starts at offset i
RECURSIVE RunEnd(_, _, _)
RunEnd(text, i, chars) ==
    IF i < Len(text) /\ text[i + 1] \in chars THEN RunEnd(text, i + 1, chars) ELSE i

\* the alternatives of keyword_regex and type_regex for Rust that LineChars
\* can spell, in the order of the pattern
RustKeywords == << <<"f", "n">> >>
RustTypes == << <<"u", "8">> >>

\* \b(?:w1|w2|..)\b at offset i: the end of the match, or -1
RECURSIVE WordsMatchEnd(_, _, _)
WordsMatchEnd(text, i, words) ==
    IF words = <<>> \/ ~WordBoundary(text, i) THEN 0 - 1
    ELSE IF SpellsAt(text, i, Head(words))
            /\ WordBoundary(text, i + Len(Head(words)))
    THEN i + Len(Head(words))
    ELSE WordsMatchEnd(text, i, Tail(words))

\* //.* at offset i (the block-comment alternative needs a '*')
CommentMatchEnd(text, i) ==
    IF SpellsAt(text, i, <<"/", "/">>) THEN Len(text) ELSE 0 - 1

\* "([^"\\]|\\.)*" at offset i: up to the next double quote
StringMatchEnd(text, i) ==
    IF i < Len(text) /\ text[i + 1] = "\""
    THEN LET close == RunEnd(text, i + 1, LineChars \ { "\"" })
         IN  IF close < Len(text) THEN close + 1 ELSE 0 - 1
    ELSE 0 - 1

\* \b\d+\.?\d*([eE][+-]?\d+)?[fFdDlL]?\b at offset i: the digits, then the
\* suffix f if a word boundary follows it, else the digits alone if one
\* follows them
NumberMatchEnd(text, i) ==
    IF WordBoundary(text, i) /\ i < Len(text) /\ text[i + 1] \in DigitCharsOfLine
    THEN LET digits == RunEnd(text, i, DigitCharsOfLine)
         IN  IF digits < Len(text) /\ text[digits + 1] = "f"
                /\ WordBoundary(text, digits + 1)
             THEN digits + 1
             ELSE IF WordBoundary(text, digits) THEN digits
             ELSE 0 - 1
    ELSE 0 - 1

\* \b([a-zA-Z_][a-zA-Z0-9_]*)\s*\( at offset i: the match ends after the '('
FunctionMatchEnd(text, i) ==
    IF WordBoundary(text, i) /\ i < Len(text) /\ text[i + 1] \in AlphaChars
    THEN LET name == RunEnd(text, i, WordChars)
             gap  == RunEnd(text, name, { " " })
         IN  IF gap < Len(text) /\ text[gap + 1] = "(" THEN gap + 1 ELSE 0 - 1
    ELSE 0 - 1

\* the six patterns of SyntaxHighlighter::new(Language::Rust)
MatchEnd(regex, text, i) ==
    IF regex = "comment" THEN CommentMatchEnd(text, i)
    ELSE IF regex = "string" THEN StringMatchEnd(text, i)
    ELSE IF regex = "keyword" THEN WordsMatchEnd(text, i, RustKeywords)
    ELSE IF regex = "type" THEN WordsMatchEnd(text, i, RustTypes)
    ELSE IF regex = "number" THEN NumberMatchEnd(text, i)
    ELSE FunctionMatchEnd(text, i)

\* regex.find_iter(text) from offset i on: the matches [start, end), leftmost
\* first and not overlapping
RECURSIVE FindIter(_, _, _)
FindIter(regex, text, i) ==
    IF i >= Len(text) THEN <<>>
    ELSE LET end == MatchEnd(regex, text, i)
         IN  IF end > i
             THEN <<[start |-> i, end |-> end]>> \o FindIter(regex, text, end)
             ELSE FindIter(regex, text, i + 1)

\* `position >= mat.start() && position < mat.end()` for some match
Within(regex, text, position) ==
    \E k \in 1..Len(FindIter(regex, text, 0)) :
        /\ position >= FindIter(regex, text, 0)[k].start
        /\ position < FindIter(regex, text, 0)[k].end

\* SyntaxHighlighter::get_syntax_element
GetSyntaxElement(language, text, position) ==
    IF language = "Unknown" THEN "None"
    ELSE IF Within("comment", text, position) THEN "Comment"
    ELSE IF Within("string", text, position) THEN "String"
    ELSE IF Within("keyword", text, position) THEN "Keyword"
    ELSE IF Within("type", text, position) THEN "Type"
    ELSE IF Within("number", text, position) THEN "Number"
    ELSE IF Within("function", text, position) THEN "Function"
    ELSE "None"

\* one `for mat in regex.find_iter(line)` loop of highlight_line: the bytes
\* of the matches that are still None get the element
Paint(result, line, regex, element) ==
    [k \in 1..Len(line) |->
        IF result[k] = "None" /\ Within(regex, line, k - 1) THEN element
        ELSE result[k]]

\* the last loop of highlight_line: of each match, the bytes before its '('
\* that are alphabetic or '_' and still None
PaintFunctions(result, line) ==
    LET found == FindIter("function", line, 0)
    IN  [k \in 1..Len(line) |->
            IF /\ result[k] = "None"
               /\ line[k] \in AlphaChars
               /\ \E m \in 1..Len(found) :
                     /\ k - 1 >= found[m].start
                     /\ k - 1 < found[m].end - 1
            THEN "Function"
            ELSE result[k]]

\* SyntaxHighlighter::highlight_line
HighlightLine(language, line) ==
    LET none == [k \in 1..Len(line) |-> "None"]
    IN  IF language = "Unknown" THEN none
        ELSE PaintFunctions(
                 Paint(Paint(Paint(Paint(Paint(none,
                 line, "comment", "Comment"),
                 line, "string", "String"),
                 line, "keyword", "Keyword"),
                 line, "type", "Type"),
                 line, "number", "Number"),
                 line)

\* no highlighter is at work
NoSyntax ==
    [language |-> "Unknown", line |-> <<>>, calls |-> 0, highlighted |-> <<>>,
     position |-> 0, element |-> "None"]

----------------------------------------------------------------------------
(* draw: the per-event update of the UI, as far as run depends on it.       *)
(* Text handed to the terminal is a sequence of bytes.                      *)

KIBI == 1024
MEBI == 1048576

LARGE_CLIPBOARD_THRESHOLD == 128 * KIBI

\* the two values of SCRATCH_ARENA_CAPACITY: 32-bit and 64-bit targets
ScratchCapacities == { 128 * MEBI, 512 * MEBI }

\* input::Input as draw distinguishes it; `arg` is a payload length or a tab number
Event(kind, arg) == [kind |-> kind, arg |-> arg]
\* create_context(None)
NoInput == Event("none", 0)
\* the user copies a selection of len bytes in the editor
Copy(len) == Event("copy", len)
\* the user types into the active document
Edit == Event("edit", 0)
\* the user activates a button of the dialog on top
Click(control) == Event(control, 0)
\* Enter goes to the button that has the focus
Enter == Event("enter", 0)
\* Escape dismisses the dialog on top
Escape == Event("escape", 0)
\* a keyboard shortcut handled at the end of draw
Key(name) == Event(name, 0)
KeyDigit(n) == Event("ctrl_digit", n)

Document(filename, dirty) == [filename |-> filename, dirty |-> dirty]

\* state.documents.len()
DocumentsLen(st) == Len(st.documents)

\* state.documents.active()
HasActive(st) == st.documents # <<>>
Active(st) == st.documents[st.active_index + 1]

\* state.documents.active().map_or("", |d| &d.filename)
ActiveFilename(st) == IF HasActive(st) THEN Active(st).filename ELSE <<>>

\* state.documents.remove_at_index(index): the tab after it, or the last, becomes active
RemoveAtIndex(st, index) ==
    LET rest == [k \in 1..(Len(st.documents) - 1) |->
                    IF k <= index THEN st.documents[k] ELSE st.documents[k + 1]]
        ai   == IF st.active_index > index \/ st.active_index >= Len(rest)
                THEN IF st.active_index = 0 THEN 0 ELSE st.active_index - 1
                ELSE st.active_index
    IN  [st EXCEPT !.documents = rest, !.active_index = ai]

\* state.documents.remove_active()
RemoveActive(st) == RemoveAtIndex(st, st.active_index)

\* state.documents.set_active_index(index)
SetActiveIndex(st, index) == [st EXCEPT !.active_index = index]

\* draw_add_untitled_document: state.documents.add_untitled() opens an empty,
\* clean document named "u" and makes it the active one
AddUntitled(st) ==
    [st EXCEPT !.documents = Append(st.documents, [filename |-> <<117>>, dirty |-> FALSE]),
               !.active_index = Len(st.documents)]

\* the state one draw pass works on: State, state.exit, the Tui's clipboard,
\* and what the pass records about the clipboard dialog
NoPrompt == [controls |-> <<>>, focus |-> {}]
NoPass == [wants |-> FALSE, data_len |-> 0, always |-> FALSE, prompt |-> NoPrompt,
           done |-> "none"]

\* what is recorded about the payload the clipboard holds: the decision of the
\* size gate, whether an OSC 52 ever carried it, and, since that decision,
\* whether a frame was composed and whether one carried it
NewPayload == [decision |-> "none", broadcast |-> FALSE, framed |-> FALSE, sent |-> FALSE]
Decided(p, decision) == [p EXCEPT !.decision = decision, !.framed = FALSE, !.sent = FALSE]
Framed(p, emitted) ==
    [p EXCEPT !.broadcast = p.broadcast \/ emitted,
              !.framed = p.decision # "none",
              !.sent = p.sent \/ (p.decision # "none" /\ emitted)]

\* state.documents.add_file_path(path): the file is opened in a new tab, named
\* after the last component of the path, and becomes the active document
AddFilePath(st, path) ==
    [st EXCEPT !.documents = Append(st.documents,
                                    [filename |-> path[Len(path)], dirty |-> FALSE]),
               !.active_index = Len(st.documents)]

\* the file system the folder browser walks: a path is the sequence of its
\* components, a name a sequence of bytes. "/" holds a/ and f, "/a" holds b/
\* and g, "/a/b" holds h
FsDirs == { <<>>, << <<97>> >>, << <<97>>, <<98>> >> }
FsSubdirs(dir) ==
    IF dir = <<>> THEN << <<97>> >>
    ELSE IF dir = << <<97>> >> THEN << <<98>> >>
    ELSE <<>>
FsFiles(dir) ==
    IF dir = <<>> THEN << <<102>> >>
    ELSE IF dir = << <<97>> >> THEN << <<103>> >>
    ELSE IF dir = << <<97>>, <<98>> >> THEN << <<104>> >>
    ELSE <<>>

\* path.is_dir()
IsDir(path) == path \in FsDirs

\* DisplayablePathBuf::from("..")
DotDot == <<46, 46>>

\* edit::path::normalize(&old_path.join(entry)): ".." drops the last component
\* (the root is its own parent), a trailing '/' of a directory entry is dropped
JoinNormalized(old_path, entry) ==
    IF entry = DotDot
    THEN IF old_path = <<>> THEN <<>> ELSE SubSeq(old_path, 1, Len(old_path) - 1)
    ELSE IF entry[Len(entry)] = 47
    THEN Append(old_path, SubSeq(entry, 1, Len(entry) - 1))
    ELSE Append(old_path, entry)

\* folder_browser_entries: None, or Some of the three lists flattened in the
\* order they are drawn; `of` records the directory that was read (history)
NoEntries == [some |-> FALSE, of |-> <<>>, list |-> <<>>]
SomeEntries(dir, list) == [some |-> TRUE, of |-> dir, list |-> list]

\* what refresh_folder_browser reads: [".."], the directories with '/'
\* appended, the files
DirsFiles(dir) ==
    (IF dir # <<>> THEN <<DotDot>> ELSE <<>>)
    \o [k \in 1..Len(FsSubdirs(dir)) |-> FsSubdirs(dir)[k] \o <<47>>]
    \o FsFiles(dir)

\* refresh_folder_browser
RefreshFolderBrowser(st) ==
    [st EXCEPT !.folder_browser_entries =
                   SomeEntries(st.folder_browser_current_dir,
                               DirsFiles(st.folder_browser_current_dir))]

\* folder_browser_current_dir_revision: an unsigned 64-bit counter, held as
\* four 16-bit limbs, the least significant first
RevisionLimb == 65536
RevisionZero == <<0, 0, 0, 0>>
RevisionMax == <<65535, 65535, 65535, 65535>>

\* wrapping_add(1)
RECURSIVE WrappingAdd1(_)
WrappingAdd1(rev) ==
    IF rev = <<>> THEN <<>>
    ELSE IF Head(rev) + 1 < RevisionLimb THEN <<Head(rev) + 1>> \o Tail(rev)
    ELSE <<0>> \o WrappingAdd1(Tail(rev))

\* Option<PathBuf>::None
NoPath == <<>>

\* mutant: the entry cache survives the change of directory
UpdateFolderBrowserPathKeepingCache(st, entry) ==
    LET old_path == st.folder_browser_current_dir
        path == JoinNormalized(old_path, entry)
        dir  == IF IsDir(path) THEN path
                ELSE IF path = <<>> THEN path ELSE SubSeq(path, 1, Len(path) - 1)
        name == IF IsDir(path) \/ path = <<>> THEN <<>> ELSE path[Len(path)]
        moved == IF dir # old_path
                 THEN [st EXCEPT
                         !.folder_browser_current_dir = dir,
                         !.folder_browser_current_dir_revision =
                             WrappingAdd1(st.folder_browser_current_dir_revision),
                         !.folder_browser_selected = 0]
                 ELSE st
    IN  [st |-> moved, path |-> IF name = <<>> THEN NoPath ELSE path]

\* update_folder_browser_path (the build is not for Windows): the state after
\* the call and the path it returns
UpdateFolderBrowserPath(st, entry) ==
    LET old_path == st.folder_browser_current_dir
        path == JoinNormalized(old_path, entry)
        dir  == IF IsDir(path) THEN path
                ELSE IF path = <<>> THEN path ELSE SubSeq(path, 1, Len(path) - 1)
        name == IF IsDir(path) \/ path = <<>> THEN <<>> ELSE path[Len(path)]
        moved == IF dir # old_path
                 THEN [st EXCEPT
                         !.folder_browser_current_dir = dir,
                         !.folder_browser_current_dir_revision =
                             WrappingAdd1(st.folder_browser_current_dir_revision),
                         !.folder_browser_entries = NoEntries,
                         !.folder_browser_selected = 0]
                 ELSE st
    IN  [st |-> moved, path |-> IF name = <<>> THEN NoPath ELSE path]

\* `if activated && let Some(entry) = selected_entry`: the file is opened
OpenReturnedPath(updated) ==
    IF updated.path # NoPath THEN AddFilePath(updated.st, updated.path)
    ELSE updated.st
ActivateEntry(st, entry) == OpenReturnedPath(UpdateFolderBrowserPath(st, entry))

\* draw_folder_browser, once the cache is filled: item `arg` of the list is
\* selected or activated, Backspace activates ".."
DrawFolderBrowserList(filled, input) ==
    IF input.kind = "select" /\ input.arg < Len(filled.folder_browser_entries.list)
    THEN [filled EXCEPT !.folder_browser_selected = input.arg]
    ELSE IF input.kind = "activate"
            /\ input.arg < Len(filled.folder_browser_entries.list)
    THEN ActivateEntry(filled, filled.folder_browser_entries.list[input.arg + 1])
    ELSE IF input.kind = "back" THEN ActivateEntry(filled, DotDot)
    ELSE filled

\* draw_folder_browser: the list is drawn from the cache, filled first if it is
\* empty
DrawFolderBrowser(st, input) ==
    IF ~st.folder_browser_visible THEN st
    ELSE DrawFolderBrowserList(IF ~st.folder_browser_entries.some
                               THEN RefreshFolderBrowser(st) ELSE st, input)

\* toggle_folder_browser
ToggleFolderBrowser(st) ==
    LET toggled == [st EXCEPT !.folder_browser_visible = ~st.folder_browser_visible]
    IN  IF toggled.folder_browser_visible /\ ~toggled.folder_browser_entries.some
        THEN RefreshFolderBrowser(toggled) ELSE toggled

\* mutant: the close button hides the dock and leaves it focused
DrawAiDockCloseKeepsFocus(st, input) ==
    IF ~st.ai_dock_visible THEN st
    ELSE LET size == st.ai_dock_size
             sized ==
               IF size = "Minimized" /\ input.kind = "expand_up"
               THEN [st EXCEPT !.ai_dock_size = "Default"]
               ELSE IF size = "Default" /\ input.kind = "minimize_down"
               THEN [st EXCEPT !.ai_dock_size = "Minimized"]
               ELSE IF size = "Default" /\ input.kind = "expand_up"
               THEN [st EXCEPT !.ai_dock_size = "Expanded"]
               ELSE IF size = "Expanded" /\ input.kind = "minimize_down"
               THEN [st EXCEPT !.ai_dock_size = "Default"]
               ELSE IF input.kind = "close"
               THEN [st EXCEPT !.ai_dock_visible = FALSE]
               ELSE st
         IN  IF sized.ai_dock_focused /\ input.kind = "escape"
             THEN [sized EXCEPT !.ai_dock_visible = FALSE, !.ai_dock_focused = FALSE]
             ELSE sized

\* mutant: the expand button of the minimized dock goes straight to Expanded
DrawAiDockExpandsFully(st, input) ==
    IF ~st.ai_dock_visible THEN st
    ELSE LET size == st.ai_dock_size
             sized ==
               IF size = "Minimized" /\ input.kind = "expand_up"
               THEN [st EXCEPT !.ai_dock_size = "Expanded"]
               ELSE IF size = "Default" /\ input.kind = "minimize_down"
               THEN [st EXCEPT !.ai_dock_size = "Minimized"]
               ELSE IF size = "Default" /\ input.kind = "expand_up"
               THEN [st EXCEPT !.ai_dock_size = "Expanded"]
               ELSE IF size = "Expanded" /\ input.kind = "minimize_down"
               THEN [st EXCEPT !.ai_dock_size = "Default"]
               ELSE IF input.kind = "close"
               THEN [st EXCEPT !.ai_dock_visible = FALSE, !.ai_dock_focused = FALSE]
               ELSE st
         IN  IF sized.ai_dock_focused /\ input.kind = "escape"
             THEN [sized EXCEPT !.ai_dock_visible = FALSE, !.ai_dock_focused = FALSE]
             ELSE sized

\* draw_ai_dock: the buttons of the header, which depend on the size, and the
\* Escape key while the dock is focused
DrawAiDock(st, input) ==
    IF ~st.ai_dock_visible THEN st
    ELSE LET size == st.ai_dock_size
             sized ==
               IF size = "Minimized" /\ input.kind = "expand_up"
               THEN [st EXCEPT !.ai_dock_size = "Default"]
               ELSE IF size = "Default" /\ input.kind = "minimize_down"
               THEN [st EXCEPT !.ai_dock_size = "Minimized"]
               ELSE IF size = "Default" /\ input.kind = "expand_up"
               THEN [st EXCEPT !.ai_dock_size = "Expanded"]
               ELSE IF size = "Expanded" /\ input.kind = "minimize_down"
               THEN [st EXCEPT !.ai_dock_size = "Default"]
               ELSE IF input.kind = "close"
               THEN [st EXCEPT !.ai_dock_visible = FALSE, !.ai_dock_focused = FALSE]
               ELSE st
         IN  IF sized.ai_dock_focused /\ input.kind = "escape"
             THEN [sized EXCEPT !.ai_dock_visible = FALSE, !.ai_dock_focused = FALSE]
             ELSE sized

\* ctx.set_input_consumed() in draw_ai_dock: the focused dock keeps Escape
DockConsumes(st, input) ==
    st.ai_dock_visible /\ st.ai_dock_focused /\ input.kind = "escape"

\* the widgets drawn before the handlers: the editor takes text input and copies
\* (Clipboard::write ignores an empty payload); a dialog on top keeps the input
WidgetsInput(u, input) ==
    IF u.clipboard.wants_host_sync \/ u.st.wants_close THEN u
    ELSE IF input.kind = "copy" /\ input.arg > 0
    THEN [u EXCEPT !.clipboard = [len |-> input.arg, wants_host_sync |-> TRUE],
                   !.payload = NewPayload]
    ELSE IF input.kind = "edit" /\ HasActive(u.st)
    THEN [u EXCEPT !.st.documents[u.st.active_index + 1].dirty = TRUE]
    ELSE u

\* draw_handle_wants_close: a clean document is closed at once, a dirty one
\* asks; Discard closes it, Cancel also withdraws a pending exit
HandleWantsClose(u, input) ==
    IF ~HasActive(u.st) THEN [u EXCEPT !.st.wants_close = FALSE]
    ELSE IF ~Active(u.st).dirty
    THEN [u EXCEPT !.st = [RemoveActive(u.st) EXCEPT !.wants_close = FALSE]]
    ELSE IF input.kind = "discard"
    THEN [u EXCEPT !.st = [RemoveActive(u.st) EXCEPT !.wants_close = FALSE]]
    ELSE IF input.kind = "cancel"
    THEN [u EXCEPT !.st.wants_close = FALSE, !.st.wants_exit = FALSE]
    ELSE u

\* `while let Some(doc) = state.documents.active()` of draw_handle_wants_exit
RECURSIVE CloseCleanDocuments(_)
CloseCleanDocuments(st) ==
    IF ~HasActive(st) THEN st
    ELSE IF Active(st).dirty THEN [st EXCEPT !.wants_close = TRUE]
    ELSE CloseCleanDocuments(RemoveActive(st))

\* draw_handle_wants_exit
HandleWantsExit(u) ==
    LET st == CloseCleanDocuments(u.st)
    IN  [u EXCEPT !.st = st,
                  !.exit = u.exit \/ (~HasActive(st) /\ DocumentsLen(st) = 0)]

\* mutant: the payload counts as over the limit from half the capacity on
ClipboardPromptHalfCapacity(data_len, capacity) ==
    IF data_len >= capacity \div 2
    THEN [controls |-> <<"ok">>, focus |-> {"ok"}]
    ELSE [controls |-> <<"always", "yes", "no">>,
          focus |-> IF data_len < 10 * LARGE_CLIPBOARD_THRESHOLD THEN {"yes"} ELSE {"no"}]

\* the buttons of the clipboard warning and the ones ctx.inherit_focus() follows
ClipboardPrompt(data_len, capacity) ==
    IF data_len >= capacity \div 4
    THEN [controls |-> <<"ok">>, focus |-> {"ok"}]
    ELSE [controls |-> <<"always", "yes", "no">>,
          focus |-> (IF data_len < 10 * LARGE_CLIPBOARD_THRESHOLD THEN {"yes"} ELSE {})
                    \cup (IF data_len >= 10 * LARGE_CLIPBOARD_THRESHOLD THEN {"no"} ELSE {})]

\* ctx.button(name, ..) returns true: the input activates a button that is shown
Pressed(prompt, input) ==
    { prompt.controls[k] : k \in { j \in 1..Len(prompt.controls) :
          \/ input.kind = prompt.controls[j]
          \/ input.kind = "enter" /\ prompt.controls[j] \in prompt.focus } }

\* mutant: closing the modal counts as consent
ClipboardDoneDismissAccepts(prompt, input) ==
    IF input.kind = "escape" THEN "true"
    ELSE IF "no" \in Pressed(prompt, input) THEN "false"
    ELSE IF Pressed(prompt, input) # {} THEN "true"
    ELSE "none"

\* `done` at the end of draw_handle_clipboard_change: "none", "true" or "false"
ClipboardDone(prompt, input) ==
    IF input.kind = "escape" THEN "false"
    ELSE IF "no" \in Pressed(prompt, input) THEN "false"
    ELSE IF Pressed(prompt, input) # {} THEN "true"
    ELSE "none"

\* mutant: "always send" is not consulted
SmallClipboardIgnoringAlways(u) == u.clipboard.len < LARGE_CLIPBOARD_THRESHOLD

\* `state.osc_clipboard_always_send || data_len < LARGE_CLIPBOARD_THRESHOLD`
SmallClipboard(u) ==
    u.st.osc_clipboard_always_send \/ u.clipboard.len < LARGE_CLIPBOARD_THRESHOLD

\* the decision the pass records for the payload (history)
Decision(prompt, input) ==
    IF input.kind = "escape" THEN "dismissed"
    ELSE IF input.kind = "enter" THEN CHOOSE c \in Pressed(prompt, input) : TRUE
    ELSE input.kind

\* draw_handle_clipboard_change
HandleClipboardChange(u, input) ==
    LET data_len == u.clipboard.len
        seen == [wants |-> TRUE, data_len |-> data_len,
                 always |-> u.st.osc_clipboard_always_send,
                 prompt |-> NoPrompt, done |-> "none"]
    IN  IF SmallClipboard(u)
        THEN [u EXCEPT !.clipboard.wants_host_sync = FALSE,
                       !.st.osc_clipboard_sync = TRUE,
                       !.syncs = u.syncs + 1,
                       !.payload = Decided(u.payload, "immediate"),
                       !.pass = seen]
        ELSE LET prompt == ClipboardPrompt(data_len, u.capacity)
                 chosen == ClipboardDone(prompt, input)
             IN  IF chosen = "none"
                 THEN [u EXCEPT !.pass = [seen EXCEPT !.prompt = prompt]]
                 ELSE [u EXCEPT
                         !.st.osc_clipboard_always_send =
                             u.st.osc_clipboard_always_send
                             \/ "always" \in Pressed(prompt, input),
                         !.st.osc_clipboard_sync = (chosen = "true"),
                         !.syncs = u.syncs + (IF chosen = "true" THEN 1 ELSE 0),
                         !.clipboard.wants_host_sync = FALSE,
                         !.payload = Decided(u.payload, Decision(prompt, input)),
                         !.pass = [seen EXCEPT !.prompt = prompt, !.done = chosen]]


\* mutant: Ctrl+Shift+Tab stops at the first tab instead of wrapping to the last
ShortcutsPrevStopsAtFirst(st, input) ==
    LET len == DocumentsLen(st)
    IN  IF input.kind = "ctrl_n" THEN AddUntitled(st)
        ELSE IF input.kind = "ctrl_w" THEN [st EXCEPT !.wants_close = TRUE]
        ELSE IF input.kind = "alt_w" /\ len > 1
        THEN IF Active(st).dirty
             THEN [st EXCEPT !.wants_close = TRUE]
             ELSE RemoveAtIndex(st, st.active_index)
        ELSE IF input.kind = "ctrl_q" THEN [st EXCEPT !.wants_exit = TRUE]
        ELSE IF input.kind = "ctrl_tab" /\ len > 1
        THEN SetActiveIndex(st, (st.active_index + 1) % len)
        ELSE IF input.kind = "ctrl_shift_tab" /\ len > 1
        THEN SetActiveIndex(st, IF st.active_index = 0 THEN 0
                                ELSE st.active_index - 1)
        ELSE IF input.kind = "ctrl_digit" /\ len > input.arg - 1
        THEN SetActiveIndex(st, input.arg - 1)
        ELSE IF input.kind = "ctrl_alt_b"
        THEN [st EXCEPT !.ai_dock_visible = ~st.ai_dock_visible,
                        !.ai_dock_focused = ~st.ai_dock_visible]
        ELSE IF input.kind = "f4" THEN ToggleFolderBrowser(st)
        ELSE st

\* mutant: Alt+W closes the active tab without looking at its dirty flag
ShortcutsAltWClosesDirty(st, input) ==
    LET len == DocumentsLen(st)
    IN  IF input.kind = "ctrl_n" THEN AddUntitled(st)
        ELSE IF input.kind = "ctrl_w" THEN [st EXCEPT !.wants_close = TRUE]
        ELSE IF input.kind = "alt_w" /\ len > 1
        THEN RemoveAtIndex(st, st.active_index)
        ELSE IF input.kind = "ctrl_q" THEN [st EXCEPT !.wants_exit = TRUE]
        ELSE IF input.kind = "ctrl_tab" /\ len > 1
        THEN SetActiveIndex(st, (st.active_index + 1) % len)
        ELSE IF input.kind = "ctrl_shift_tab" /\ len > 1
        THEN SetActiveIndex(st, IF st.active_index = 0 THEN len - 1
                                ELSE st.active_index - 1)
        ELSE IF input.kind = "ctrl_digit" /\ len > input.arg - 1
        THEN SetActiveIndex(st, input.arg - 1)
        ELSE IF input.kind = "ctrl_alt_b"
        THEN [st EXCEPT !.ai_dock_visible = ~st.ai_dock_visible,
                        !.ai_dock_focused = ~st.ai_dock_visible]
        ELSE IF input.kind = "f4" THEN ToggleFolderBrowser(st)
        ELSE st

\* `if let Some(key) = ctx.keyboard_input()`: the shortcuts draw handles itself
Shortcuts(st, input) ==
    LET len == DocumentsLen(st)
    IN  IF input.kind = "ctrl_n" THEN AddUntitled(st)
        ELSE IF input.kind = "ctrl_w" THEN [st EXCEPT !.wants_close = TRUE]
        ELSE IF input.kind = "alt_w" /\ len > 1
        THEN IF Active(st).dirty
             THEN [st EXCEPT !.wants_close = TRUE]
             ELSE RemoveAtIndex(st, st.active_index)
        ELSE IF input.kind = "ctrl_q" THEN [st EXCEPT !.wants_exit = TRUE]
        ELSE IF input.kind = "ctrl_tab" /\ len > 1
        THEN SetActiveIndex(st, (st.active_index + 1) % len)
        ELSE IF input.kind = "ctrl_shift_tab" /\ len > 1
        THEN SetActiveIndex(st, IF st.active_index = 0 THEN len - 1
                                ELSE st.active_index - 1)
        ELSE IF input.kind = "ctrl_digit" /\ len > input.arg - 1
        THEN SetActiveIndex(st, input.arg - 1)
        ELSE IF input.kind = "ctrl_alt_b"
        THEN [st EXCEPT !.ai_dock_visible = ~st.ai_dock_visible,
                        !.ai_dock_focused = ~st.ai_dock_visible]
        ELSE IF input.kind = "f4" THEN ToggleFolderBrowser(st)
        ELSE st

\* the state a draw pass starts from
Ui ==
    [st |-> state, exit |-> exit, clipboard |-> clipboard, payload |-> payload,
     capacity |-> SCRATCH_ARENA_CAPACITY, pass |-> NoPass, syncs |-> syncs]

\* draw after the widgets: the close, exit and clipboard handlers, then the
\* keyboard shortcuts, with the input the widgets left
DrawHandlers(a, left) ==
    LET b == IF a.st.wants_close THEN HandleWantsClose(a, left) ELSE a
        c == IF b.st.wants_exit THEN HandleWantsExit(b) ELSE b
        d == IF c.clipboard.wants_host_sync THEN HandleClipboardChange(c, left) ELSE c
    IN  [d EXCEPT !.st = Shortcuts(@, left)]

\* draw from the AI dock on: the dock consumes the Escape it handles
DrawDock(browser, input) ==
    DrawHandlers([browser EXCEPT !.st = DrawAiDock(@, input)],
                 IF DockConsumes(browser.st, input) THEN NoInput ELSE input)

\* draw(&mut ctx, &mut state) with ctx made from `input`
Draw(u, input) ==
    DrawDock([WidgetsInput(u, input) EXCEPT !.st = DrawFolderBrowser(@, input)], input)

\* the result of a draw pass becomes the state
SetUi(u) ==
    /\ state' = u.st
    /\ exit' = u.exit
    /\ clipboard' = u.clipboard
    /\ payload' = u.payload
    /\ pass' = u.pass
    /\ syncs' = u.syncs

\* mutant: only the first control byte is replaced
SanitizeControlCharsFirstOnly(text) ==
    IF \E k \in 1..Len(text) : text[k] < 32
    THEN LET off == CHOOSE k \in 1..Len(text) :
                        text[k] < 32 /\ \A j \in 1..(k - 1) : text[j] >= 32
         IN  [k \in 1..Len(text) |-> IF k = off THEN 95 ELSE text[k]]
    ELSE text

\* sanitize_control_chars: from the first byte below 0x20 on, every such byte
\* becomes '_'; a text without one is returned as it is
SanitizeControlChars(text) ==
    IF \E k \in 1..Len(text) : text[k] < 32
    THEN LET off == CHOOSE k \in 1..Len(text) :
                        text[k] < 32 /\ \A j \in 1..(k - 1) : text[j] >= 32
         IN  [k \in 1..Len(text) |->
                 IF k >= off /\ text[k] < 32 THEN 95 ELSE text[k]]
    ELSE text

\* mutant: the name and the separator are written for an empty name too
WriteTerminalTitleAlwaysNamed(filename) ==
    <<27, 93, 48, 59>>
    \o SanitizeControlChars(filename) \o <<32, 45, 32>>
    \o <<101, 100, 105, 116, 27, 92>>

\* write_terminal_title: ESC ] 0 ; <name> " - " edit ESC \
WriteTerminalTitle(filename) ==
    <<27, 93, 48, 59>>
    \o (IF filename # <<>> THEN SanitizeControlChars(filename) \o <<32, 45, 32>> ELSE <<>>)
    \o <<101, 100, 105, 116, 27, 92>>

\* the side-channel part of a frame: the title update and the payload length
\* of the OSC 52 broadcast, if any
NoTitle == <<>>
NoBroadcast == 0 - 1
Frame(title, osc52) == [title |-> title, osc52 |-> osc52]

\* mutant: the title update is written into every frame
FrameTitleAlways(st) == WriteTerminalTitle(ActiveFilename(st))

\* `if filename != state.osc_title_filename { write_terminal_title(..) }`
FrameTitle(st) ==
    IF ActiveFilename(st) # st.osc_title_filename
    THEN WriteTerminalTitle(ActiveFilename(st))
    ELSE NoTitle

\* `if state.osc_clipboard_sync { write_osc_clipboard(..) }`: an empty payload
\* is not broadcast
FrameClipboard(st, cb) ==
    IF st.osc_clipboard_sync /\ cb.len > 0 THEN cb.len ELSE NoBroadcast

\* mutant: the title update is pushed before the frame is rendered
FramePartsTitleFirst(st, cb) ==
    (IF FrameTitle(st) # NoTitle THEN <<"title">> ELSE <<>>)
    \o <<"rendered">>
    \o (IF FrameClipboard(st, cb) # NoBroadcast THEN <<"osc52">> ELSE <<>>)

\* what the frame's output holds when it is written: tui.render's bytes, then
\* the title update, then the clipboard broadcast
FrameParts(st, cb) ==
    <<"rendered">>
    \o (IF FrameTitle(st) # NoTitle THEN <<"title">> ELSE <<>>)
    \o (IF FrameClipboard(st, cb) # NoBroadcast THEN <<"osc52">> ELSE <<>>)

\* the entry of frame_log for a frame written in state st
Logged(st, cb) ==
    [name |-> ActiveFilename(st), title |-> FrameTitle(st), parts |-> FrameParts(st, cb)]

\* State::new and handle_args: the documents opened, nothing requested yet
NewState(documents) ==
    [documents |-> documents, active_index |-> 0,
     wants_exit |-> FALSE, wants_close |-> FALSE,
     osc_title_filename |-> <<>>,
     osc_clipboard_sync |-> FALSE, osc_clipboard_always_send |-> FALSE,
     folder_browser_visible |-> FALSE, folder_browser_entries |-> NoEntries,
     folder_browser_current_dir |-> << <<97>> >>,
     folder_browser_current_dir_revision |-> RevisionZero,
     folder_browser_selected |-> 0,
     ai_dock_visible |-> FALSE, ai_dock_focused |-> FALSE,
     ai_dock_size |-> "Default"]

\* one untitled document: "u"
Untitled == Document(<<117>>, FALSE)

\* the session's UI before the first read of the loop
InitUiFrom(st, capacity) ==
    /\ renders = 0
    /\ state = st
    /\ clipboard = [len |-> 0, wants_host_sync |-> FALSE]
    /\ SCRATCH_ARENA_CAPACITY = capacity
    /\ batch = 0
    /\ dispatched = <<>>
    /\ pass = NoPass
    /\ payload = NewPayload
    /\ output = Frame(NoTitle, NoBroadcast)
    /\ frame_log = <<>>
    /\ syncs = 0
    /\ settles = 0

InitUi(documents, capacity) ==
    InitUiFrom(NewState(documents), capacity) /\ syntax = NoSyntax

----------------------------------------------------------------------------
(* setup_terminal as a state machine. *)

NegState ==
    [done |-> done, osc_buffer |-> osc_buffer, indexed_colors |-> indexed_colors,
     color_responses |-> color_responses, ambiguous_width |-> ambiguous_width]

SetNegState(s) ==
    /\ done' = s.done
    /\ osc_buffer' = s.osc_buffer
    /\ indexed_colors' = s.indexed_colors
    /\ color_responses' = s.color_responses
    /\ ambiguous_width' = s.ambiguous_width

\* the session before the interactive loop has run
InitRunVars ==
    /\ restore_alive = FALSE
    /\ teardowns = 0
    /\ outcome = "running"
    /\ pending = 0
    /\ needs_settling = FALSE
    /\ exit = FALSE
    /\ iters = 0
    /\ frames = 0
    /\ run_err = "none"
    /\ InitUi(<<Untitled>>, 512 * MEBI)

\* the locals of setup_terminal before its loop, the Tui and unicode defaults
InitNegVars ==
    /\ done = FALSE
    /\ osc_buffer = <<>>
    /\ indexed_colors = DEFAULT_THEME
    /\ color_responses = 0
    /\ ambiguous_width = 1
    /\ vt_stream = <<>>
    /\ reads = 0
    /\ lastTok = NoToken
    /\ indexed_replies = 0
    /\ sample = NoSample
    /\ theme = DEFAULT_THEME
    /\ unicode_width = 1
    /\ reflows = 0

\* the state at the entry of setup_terminal's loop
InitNeg ==
    /\ pc = "negotiate"
    /\ probes = 1
    /\ build = [debug_assertions |-> TRUE, unwind |-> TRUE]
    /\ InitNegVars
    /\ InitRunVars

\* mutant: the loop reads again although `done` is set
NegReadIgnoringDone(menu, cap) ==
    /\ pc = "negotiate" /\ vt_stream = <<>>
    /\ reads < cap
    /\ \E input \in menu : vt_stream' = input
    /\ reads' = reads + 1
    /\ UNCHANGED <<pc, done, osc_buffer, indexed_colors, color_responses,
                   ambiguous_width, lastTok, indexed_replies, sample, theme,
                   unicode_width, reflows>>
    /\ UNCHANGED runVars

\* sys::read_stdin returned Some(input); vt_parser.parse(&input)
NegRead(menu, cap) ==
    /\ pc = "negotiate" /\ vt_stream = <<>> /\ ~done
    /\ reads < cap
    /\ \E input \in menu : vt_stream' = input
    /\ reads' = reads + 1
    /\ UNCHANGED <<pc, done, osc_buffer, indexed_colors, color_responses,
                   ambiguous_width, lastTok, indexed_replies, sample, theme,
                   unicode_width, reflows>>
    /\ UNCHANGED runVars

\* one token of the read
NegToken ==
    /\ pc = "negotiate" /\ vt_stream # <<>>
    /\ SetNegState(HandleToken(NegState, Head(vt_stream)))
    /\ vt_stream' = Tail(vt_stream)
    /\ lastTok' = Head(vt_stream)
    /\ indexed_replies' = indexed_replies
         + (IF CountedSlot(NegState, Head(vt_stream)) \in 0..15 THEN 1 ELSE 0)
    /\ UNCHANGED <<pc, reads, sample, theme, unicode_width, reflows>>
    /\ UNCHANGED runVars

\* mutant: whatever width the last cursor-position reply gave is applied
ApplyNegotiatedAnyWidth ==
    /\ IF ambiguous_width # 1
       THEN unicode_width' = ambiguous_width /\ reflows' = reflows + 1
       ELSE UNCHANGED <<unicode_width, reflows>>
    /\ IF color_responses = IndexedColorsLen
       THEN theme' = indexed_colors
       ELSE UNCHANGED theme
    /\ pc' = "loop"
    /\ restore_alive' = TRUE
    /\ UNCHANGED <<build, teardowns, outcome, pending, needs_settling, exit, iters, frames, uiVars>>

\* mutant: the table is installed as soon as enough replies were counted
ApplyNegotiatedEnoughReplies ==
    /\ IF ambiguous_width = 2
       THEN unicode_width' = 2 /\ reflows' = reflows + 1
       ELSE UNCHANGED <<unicode_width, reflows>>
    /\ IF color_responses >= IndexedColorsLen
       THEN theme' = indexed_colors
       ELSE UNCHANGED theme
    /\ pc' = "loop"
    /\ restore_alive' = TRUE
    /\ UNCHANGED <<build, teardowns, outcome, pending, needs_settling, exit, iters, frames, uiVars>>

\* the code after the loop, and the guard returned to run
ApplyNegotiated ==
    /\ IF ambiguous_width = 2
       THEN unicode_width' = 2 /\ reflows' = reflows + 1
       ELSE UNCHANGED <<unicode_width, reflows>>
    /\ IF color_responses = IndexedColorsLen
       THEN theme' = indexed_colors
       ELSE UNCHANGED theme
    /\ pc' = "loop"
    /\ restore_alive' = TRUE
    /\ UNCHANGED <<build, teardowns, outcome, pending, needs_settling, exit, iters, frames, uiVars>>

\* mutant: a closed stream returns at once, skipping the code after the loop
NegClosedReturnsAtOnce ==
    /\ pc = "negotiate" /\ vt_stream = <<>> /\ ~done
    /\ reads' = reads + 1
    /\ pc' = "loop"
    /\ restore_alive' = TRUE
    /\ UNCHANGED <<done, osc_buffer, indexed_colors, color_responses,
                   ambiguous_width, vt_stream, lastTok, indexed_replies, sample,
                   theme, unicode_width, reflows>>
    /\ UNCHANGED <<build, teardowns, outcome, pending, needs_settling, exit, iters, frames, uiVars>>

\* sys::read_stdin returned None: break
NegClosed ==
    /\ pc = "negotiate" /\ vt_stream = <<>> /\ ~done
    /\ reads' = reads + 1
    /\ ApplyNegotiated
    /\ UNCHANGED <<done, osc_buffer, indexed_colors, color_responses,
                   ambiguous_width, vt_stream, lastTok, indexed_replies, sample>>

\* `while !done` ends
NegDone ==
    /\ pc = "negotiate" /\ vt_stream = <<>> /\ done
    /\ ApplyNegotiated
    /\ UNCHANGED <<done, osc_buffer, indexed_colors, color_responses,
                   ambiguous_width, vt_stream, reads, lastTok, indexed_replies, sample>>

vars == <<pc, negVars, runVars>>

----------------------------------------------------------------------------
(* main and run: startup, the interactive loop, and the ways out. *)

\* the fallible calls of run before setup_terminal, in order
StartupSteps == <<"sys_init", "arena_init", "state_new", "handle_args",
                  "switch_modes", "tui_new">>

StepIndex(p) == CHOOSE k \in 1..Len(StartupSteps) : StartupSteps[k] = p

\* Drop for RestoreModes writes the teardown sequence
DropRestore(alive) == IF alive THEN 1 ELSE 0

\* run returns: its locals are dropped, main maps the result to the exit code
ReturnFromRun(result) ==
    /\ teardowns' = teardowns + DropRestore(restore_alive)
    /\ restore_alive' = FALSE
    /\ outcome' = result
    /\ pc' = "exited"

\* the panic hook of main (debug builds), then unwinding or abort
PanicTeardowns ==
    (IF build.debug_assertions THEN 1 ELSE 0)
    + (IF build.unwind THEN DropRestore(restore_alive) ELSE 0)

\* any build of the binary, at the entry of main
InitRun ==
    /\ pc = "sys_init"
    /\ probes = 0
    /\ build \in [debug_assertions : BOOLEAN, unwind : BOOLEAN]
    /\ InitNegVars
    /\ InitRunVars

\* mutant: the mode and query sequence is written before sys::switch_modes
StartupOkProbingEarly ==
    /\ pc \in { StartupSteps[k] : k \in 1..Len(StartupSteps) }
    /\ pc' = IF StepIndex(pc) < Len(StartupSteps)
             THEN StartupSteps[StepIndex(pc) + 1]
             ELSE "negotiate"
    /\ probes' = probes + (IF pc' = "switch_modes" THEN 1 ELSE 0)
    /\ UNCHANGED <<negVars, build, restore_alive, teardowns, outcome, pending,
                   needs_settling, exit, iters, frames, renders, state, clipboard,
                   SCRATCH_ARENA_CAPACITY, syntax, batch, dispatched, pass, payload, output,
                   frame_log, syncs, settles, run_err>>

\* the call at pc returned Ok (handle_args: Ok(false))
StartupOk ==
    /\ pc \in { StartupSteps[k] : k \in 1..Len(StartupSteps) }
    /\ pc' = IF StepIndex(pc) < Len(StartupSteps)
             THEN StartupSteps[StepIndex(pc) + 1]
             ELSE "negotiate"
    /\ probes' = probes + (IF pc' = "negotiate" THEN 1 ELSE 0)
    /\ UNCHANGED <<negVars, build, restore_alive, teardowns, outcome, pending,
                   needs_settling, exit, iters, frames, renders, state, clipboard,
                   SCRATCH_ARENA_CAPACITY, syntax, batch, dispatched, pass, payload, output,
                   frame_log, syncs, settles, run_err>>

\* the call at pc returned Err: `?` returns it from run
StartupErr ==
    /\ pc \in { StartupSteps[k] : k \in 1..Len(StartupSteps) }
    /\ ReturnFromRun("failure")
    /\ run_err' = pc
    /\ UNCHANGED <<negVars, build, pending, needs_settling, exit, iters, frames,
                   renders, state, clipboard, SCRATCH_ARENA_CAPACITY, syntax, batch, dispatched,
                   pass, payload, output, frame_log, syncs, probes, settles>>

\* handle_args printed the help or the version: return Ok(())
ArgsExit ==
    /\ pc = "handle_args"
    /\ ReturnFromRun("success")
    /\ UNCHANGED <<negVars, build, pending, needs_settling, exit, iters, frames, uiVars>>

\* mutant: every read of the loop applies the negotiated width again
LoopReadRenegotiating(cap, max) ==
    /\ pc = "loop"
    /\ iters < cap
    /\ \E n \in 0..max : pending' = n /\ batch' = n
    /\ iters' = iters + 1
    /\ dispatched' = <<>>
    /\ pass' = NoPass
    /\ pc' = "drain"
    /\ settles' = 0
    /\ unicode_width' = (IF ambiguous_width = 2 THEN 2 ELSE unicode_width)
    /\ reflows' = reflows + (IF ambiguous_width = 2 THEN 1 ELSE 0)
    /\ UNCHANGED <<done, osc_buffer, indexed_colors, color_responses, ambiguous_width,
                   vt_stream, reads, lastTok, indexed_replies, sample, theme>>
    /\ UNCHANGED <<build, restore_alive, teardowns, outcome,
                   needs_settling, exit, frames, renders, state, clipboard,
                   SCRATCH_ARENA_CAPACITY, syntax, payload, output, frame_log, syncs, probes, run_err>>

\* sys::read_stdin returned Some(input), which input_parser will decode to n
\* events; a read that timed out holds none
LoopRead(cap, max) ==
    /\ pc = "loop"
    /\ iters < cap
    /\ \E n \in 0..max : pending' = n /\ batch' = n
    /\ iters' = iters + 1
    /\ dispatched' = <<>>
    /\ pass' = NoPass
    /\ pc' = "drain"
    /\ settles' = 0
    /\ UNCHANGED <<negVars, build, restore_alive, teardowns, outcome,
                   needs_settling, exit, frames, renders, state, clipboard,
                   SCRATCH_ARENA_CAPACITY, syntax, payload, output, frame_log, syncs, probes, run_err>>

\* mutant: a closed input stream is reported as an error
LoopClosedAsError ==
    /\ pc = "loop"
    /\ ReturnFromRun("failure")
    /\ UNCHANGED <<negVars, build, pending, needs_settling, exit, iters, frames, uiVars>>

\* sys::read_stdin returned None: break, return Ok(())
LoopClosed ==
    /\ pc = "loop"
    /\ ReturnFromRun("success")
    /\ UNCHANGED <<negVars, build, pending, needs_settling, exit, iters, frames, uiVars>>

\* mutant: the `while { ... more } {}` loop ends with the last event, without
\* the pass that has no input
DrainWithoutFinalPass(events) ==
    /\ pc = "drain"
    /\ IF pending > 0
       THEN /\ \E input \in events : SetUi(Draw(Ui, input))
            /\ dispatched' = Append(dispatched, TRUE)
            /\ pending' = pending - 1
       ELSE UNCHANGED <<state, exit, clipboard, payload, pass, syncs, dispatched, pending>>
    /\ pc' = IF pending > 1 THEN "drain" ELSE "settle"
    /\ needs_settling' \in BOOLEAN
    /\ UNCHANGED <<negVars, build, restore_alive, teardowns, outcome, iters, frames,
                   renders, SCRATCH_ARENA_CAPACITY, syntax, batch, output, frame_log, probes,
                   settles, run_err>>

\* one pass of the `while { ... more } {}` loop: input_iter.next() decodes the
\* next event, or None after the last one, and draw is called with it
Drain(events) ==
    /\ pc = "drain"
    /\ \E input \in (IF pending > 0 THEN events ELSE {NoInput}) :
          /\ SetUi(Draw(Ui, input))
          /\ dispatched' = Append(dispatched, input # NoInput)
    /\ pending' = IF pending > 0 THEN pending - 1 ELSE 0
    /\ pc' = IF pending > 0 THEN "drain" ELSE "settle"
    /\ needs_settling' \in BOOLEAN
    /\ UNCHANGED <<negVars, build, restore_alive, teardowns, outcome, iters, frames,
                   renders, SCRATCH_ARENA_CAPACITY, syntax, batch, output, frame_log, probes,
                   settles, run_err>>

\* `while tui.needs_settling()`: draw with None
Settle ==
    /\ pc = "settle" /\ needs_settling
    /\ SetUi(Draw(Ui, NoInput))
    /\ needs_settling' \in BOOLEAN
    /\ settles' = IF settles < MaxSettles THEN settles + 1 ELSE settles
    /\ UNCHANGED <<pc, negVars, build, restore_alive, teardowns, outcome,
                   pending, iters, frames, renders, SCRATCH_ARENA_CAPACITY, syntax, batch,
                   dispatched, output, frame_log, probes, run_err>>

\* `if state.exit { break; }`, return Ok(())
LoopExit ==
    /\ pc = "settle" /\ ~needs_settling /\ exit
    /\ ReturnFromRun("success")
    /\ UNCHANGED <<negVars, build, pending, needs_settling, exit, iters, frames, uiVars>>

\* mutant: the frame that carries a broadcast withdraws "always send"
ComposeFrameResettingAlways ==
    /\ renders' = renders + 1
    /\ frames' = frames + 1
    /\ output' = Frame(FrameTitle(state), FrameClipboard(state, clipboard))
    /\ state' = [state EXCEPT !.osc_title_filename = ActiveFilename(state),
                              !.osc_clipboard_sync = FALSE,
                              !.osc_clipboard_always_send =
                                  state.osc_clipboard_always_send
                                  /\ ~state.osc_clipboard_sync]
    /\ payload' = Framed(payload, FrameClipboard(state, clipboard) # NoBroadcast)
    /\ frame_log' = Append(frame_log, Logged(state, clipboard))
    /\ pc' = "loop"
    /\ UNCHANGED <<negVars, build, restore_alive, teardowns, outcome, pending,
                   needs_settling, exit, iters, clipboard, SCRATCH_ARENA_CAPACITY, syntax,
                   batch, dispatched, pass, syncs, probes, settles, run_err>>

\* mutant: the broadcast flag stays set after the frame
ComposeFrameKeepingSync ==
    /\ renders' = renders + 1
    /\ frames' = frames + 1
    /\ output' = Frame(FrameTitle(state), FrameClipboard(state, clipboard))
    /\ state' = [state EXCEPT !.osc_title_filename = ActiveFilename(state)]
    /\ payload' = Framed(payload, FrameClipboard(state, clipboard) # NoBroadcast)
    /\ frame_log' = Append(frame_log, Logged(state, clipboard))
    /\ pc' = "loop"
    /\ UNCHANGED <<negVars, build, restore_alive, teardowns, outcome, pending,
                   needs_settling, exit, iters, clipboard, SCRATCH_ARENA_CAPACITY, syntax,
                   batch, dispatched, pass, syncs, probes, settles, run_err>>

\* mutant: the name of the title written is not remembered
ComposeFrameForgettingTitle ==
    /\ renders' = renders + 1
    /\ frames' = frames + 1
    /\ output' = Frame(FrameTitle(state), FrameClipboard(state, clipboard))
    /\ state' = [state EXCEPT !.osc_clipboard_sync = FALSE]
    /\ payload' = Framed(payload, FrameClipboard(state, clipboard) # NoBroadcast)
    /\ frame_log' = Append(frame_log, Logged(state, clipboard))
    /\ pc' = "loop"
    /\ UNCHANGED <<negVars, build, restore_alive, teardowns, outcome, pending,
                   needs_settling, exit, iters, clipboard, SCRATCH_ARENA_CAPACITY, syntax,
                   batch, dispatched, pass, syncs, probes, settles, run_err>>

\* tui.render, the title and clipboard updates, and sys::write_stdout
ComposeFrame ==
    /\ renders' = renders + 1
    /\ frames' = frames + 1
    /\ output' = Frame(FrameTitle(state), FrameClipboard(state, clipboard))
    /\ state' = [state EXCEPT !.osc_title_filename = ActiveFilename(state),
                              !.osc_clipboard_sync = FALSE]
    /\ payload' = Framed(payload, FrameClipboard(state, clipboard) # NoBroadcast)
    /\ frame_log' = Append(frame_log, Logged(state, clipboard))
    /\ pc' = "loop"
    /\ UNCHANGED <<negVars, build, restore_alive, teardowns, outcome, pending,
                   needs_settling, exit, iters, clipboard, SCRATCH_ARENA_CAPACITY, syntax,
                   batch, dispatched, pass, syncs, probes, settles, run_err>>

\* mutant: the frame is composed although the UI asked to exit
RenderIgnoringExit == pc = "settle" /\ ~needs_settling /\ ComposeFrame

\* mutant: the frame is composed while the layout is still unsettled
RenderBeforeSettled == pc = "settle" /\ ~exit /\ ComposeFrame

\* mutant: the settle loop gives up after MaxSettles passes
RenderAfterSettleCap ==
    pc = "settle" /\ (~needs_settling \/ settles >= MaxSettles) /\ ~exit /\ ComposeFrame

\* the end of an iteration that does not exit: the frame is rendered and written
Render == pc = "settle" /\ ~needs_settling /\ ~exit /\ ComposeFrame

\* a panic while an iteration of the loop is under way
Panic ==
    /\ pc \in {"drain", "settle"}
    /\ teardowns' = teardowns + PanicTeardowns
    /\ restore_alive' = FALSE
    /\ outcome' = "panic"
    /\ pc' = "exited"
    /\ UNCHANGED <<negVars, build, pending, needs_settling, exit, iters, frames, uiVars>>

Init == InitNeg
Next == NegRead(ReadMenu, MaxReads) \/ NegToken \/ NegClosed \/ NegDone
Spec == Init /\ [][Next]_vars

\* negotiation with a terminal that answers in whole batches
NextTheme == NegRead(ThemeMenu, MaxThemeReads) \/ NegToken \/ NegClosed \/ NegDone
SpecTheme == Init /\ [][NextTheme]_vars

\* negotiation with a terminal whose OSC replies arrive in fragments
FragmentMenu ==
    FragmentReads
    \cup { <<Osc(<<"5", ";", "1">>, FALSE)>>, <<Csi("c", 1, 2)>>,
           <<Osc(Reply10(BatchColor), FALSE)>> }
NextFragments ==
    NegRead(FragmentMenu, MaxFragmentReads) \/ NegToken \/ NegClosed \/ NegDone
SpecFragments == Init /\ [][NextFragments]_vars

\* one colour reply for slot 5, read and about to be parsed: one component
\* takes every 16-bit or 8-bit value, the two others are fixed
SampleSlot == 5
FixedSamples == << [v |-> 33023, bits |-> 16], [v |-> 171, bits |-> 8],
                  [v |-> 4660, bits |-> 16] >>
InitColour ==
    /\ pc = "negotiate"
    /\ probes = 1
    /\ build = [debug_assertions |-> TRUE, unwind |-> TRUE]
    /\ InitRunVars
    /\ done = FALSE
    /\ osc_buffer = <<>>
    /\ indexed_colors = DEFAULT_THEME
    /\ color_responses = 0
    /\ ambiguous_width = 1
    /\ reads = 1
    /\ lastTok = NoToken
    /\ indexed_replies = 0
    /\ theme = DEFAULT_THEME
    /\ unicode_width = 1
    /\ reflows = 0
    /\ \E k \in 1..3 :
         \E c \in [v : 0..65535, bits : {16}] \cup [v : 0..255, bits : {8}] :
            sample = [FixedSamples EXCEPT ![k] = c]
    /\ vt_stream = << Osc(Reply4(SampleSlot, Rgb(HexOf(sample[1]), HexOf(sample[2]),
                                                 HexOf(sample[3]))), FALSE) >>
NextColour == NegToken \/ NegClosed
SpecColour == InitColour /\ [][NextColour]_vars

\* the whole program
RunMenu == { <<Csi("c", 1, 2)>>, <<Csi("R", 1, 3)>>, FgBgBatch }
RunEvents == { Key("ctrl_q"), Edit }
NextRun ==
    \/ StartupOk \/ StartupErr \/ ArgsExit
    \/ NegRead(RunMenu, MaxRunReads) \/ NegToken \/ NegClosed \/ NegDone
    \/ LoopRead(MaxIters, MaxEvents) \/ LoopClosed
    \/ Drain(RunEvents) \/ Settle \/ LoopExit \/ Render \/ Panic
SpecRun == InitRun /\ [][NextRun]_vars

\* negotiation while the user types, followed by the loop: text and cursor keys
\* arrive before, between and after the replies
KeysMenu ==
    { <<Text, Csi("A", 0, 0)>>, <<Csi("c", 1, 2), Text>>, <<Csi("R", 1, 3)>>,
      <<Csi("c", 1, 2)>>, <<Osc(Reply10(BatchColor), FALSE), Csi("B", 0, 0)>> }
NextKeys ==
    \/ NegRead(KeysMenu, MaxRunReads) \/ NegToken \/ NegClosed \/ NegDone
    \/ LoopRead(MaxIters, MaxEvents) \/ LoopClosed
    \/ Drain(RunEvents) \/ Settle \/ LoopExit \/ Render
SpecKeys == Init /\ [][NextKeys]_vars

\* the session at the first read of the interactive loop, after a negotiation
\* that the device-attributes reply ended at once
InitLoopFrom(st, capacity) ==
    /\ pc = "loop"
    /\ probes = 1
    /\ build = [debug_assertions |-> TRUE, unwind |-> TRUE]
    /\ done = TRUE
    /\ osc_buffer = <<>>
    /\ indexed_colors = DEFAULT_THEME
    /\ color_responses = 0
    /\ ambiguous_width = 1
    /\ vt_stream = <<>>
    /\ reads = 1
    /\ lastTok = Csi("c", 1, 2)
    /\ indexed_replies = 0
    /\ sample = NoSample
    /\ theme = DEFAULT_THEME
    /\ unicode_width = 1
    /\ reflows = 0
    /\ restore_alive = TRUE
    /\ teardowns = 0
    /\ outcome = "running"
    /\ pending = 0
    /\ needs_settling = FALSE
    /\ exit = FALSE
    /\ iters = 0
    /\ frames = 0
    /\ run_err = "none"
    /\ InitUiFrom(st, capacity)

InitLoop(documents, capacity) ==
    InitLoopFrom(NewState(documents), capacity) /\ syntax = NoSyntax

\* the documents handle_args can leave: an untitled one (clean, or dirty when
\* stdin was redirected into it), or the files named on the command line
NamedA == Document(<<97>>, FALSE)
NamedB == Document(<<27, 98>>, FALSE)
StartDocuments ==
    { <<Untitled>>, <<Document(<<117>>, TRUE)>>, <<NamedA, NamedB>>, <<NamedA, NamedA>> }

\* the interactive loop with documents, tabs and exit requests
LoopEvents ==
    { Key("ctrl_q"), Key("ctrl_w"), Key("ctrl_tab"), Key("alt_w"), Edit,
      Click("discard"), Click("cancel"), Copy(1) }
InitSession == \E documents \in StartDocuments : InitLoop(documents, 512 * MEBI)
NextLoop ==
    \/ LoopRead(MaxLoopIters, MaxLoopEvents) \/ LoopClosed
    \/ Drain(LoopEvents) \/ Settle \/ LoopExit \/ Render
SpecLoop == InitSession /\ [][NextLoop]_vars

\* the loop as a running program: a statement that can execute does so; only
\* the reads wait on the terminal. No fairness is stated for Settle: the UI
\* need not converge, and passes that change nothing go on for ever
InitSettle == InitLoop(<<Untitled>>, 512 * MEBI)
NextSettle ==
    \/ LoopRead(MaxSettleIters, MaxSettleEvents) \/ LoopClosed
    \/ Drain(RunEvents) \/ Settle \/ LoopExit \/ Render
SpecSettle ==
    /\ InitSettle /\ [][NextSettle]_vars
    /\ WF_vars(Drain(RunEvents)) /\ WF_vars(Render) /\ WF_vars(LoopExit)

\* the interactive loop with copies of every size class and the clipboard dialog
ClipSizes(capacity) ==
    { 1, LARGE_CLIPBOARD_THRESHOLD - 1, LARGE_CLIPBOARD_THRESHOLD,
      10 * LARGE_CLIPBOARD_THRESHOLD - 1, 10 * LARGE_CLIPBOARD_THRESHOLD,
      capacity \div 4 - 1, capacity \div 4 }
ClipEvents(capacity) ==
    { Copy(len) : len \in ClipSizes(capacity) }
    \cup { Click("always"), Click("yes"), Click("no"), Click("ok"), Enter, Escape,
           Key("ctrl_q") }
InitClipboard == \E capacity \in ScratchCapacities : InitLoop(<<Untitled>>, capacity)
NextClipboard ==
    \/ LoopRead(MaxClipIters, MaxClipEvents) \/ LoopClosed
    \/ Drain(ClipEvents(SCRATCH_ARENA_CAPACITY)) \/ Settle \/ LoopExit \/ Render
SpecClipboard == InitClipboard /\ [][NextClipboard]_vars

\* the interactive loop of a session with two files open, in which the user
\* switches between the tabs and closes them
TabDocuments == { <<NamedA, NamedB>>, <<NamedA, NamedA>> }
TabEvents == { Key("ctrl_tab"), Key("ctrl_w") }
InitTabs == \E documents \in TabDocuments : InitLoop(documents, 512 * MEBI)
NextTabs ==
    \/ LoopRead(MaxTabIters, MaxTabEvents) \/ LoopClosed
    \/ Drain(TabEvents) \/ Settle \/ Render
SpecTabs == InitTabs /\ [][NextTabs]_vars

\* bytes a file name can hold: NUL, BEL, ESC, US, space, '_', DEL and a byte of
\* a multi-byte character
NameBytes == { 0, 7, 27, 31, 32, 95, 127, 200 }
RECURSIVE NamesOfLen(_)
NamesOfLen(n) ==
    IF n = 0 THEN { <<>> }
    ELSE { <<b>> \o rest : b \in NameBytes, rest \in NamesOfLen(n - 1) }
FileNames == UNION { NamesOfLen(n) : n \in 1..MaxNameLen }

\* the interactive loop of a session with one file open, whatever its name:
\* the reads time out and the frames show the name in the title
InitNames == \E filename \in FileNames : InitLoop(<<Document(filename, FALSE)>>, 512 * MEBI)
NextNames ==
    \/ LoopRead(MaxNameIters, 0) \/ LoopClosed
    \/ Drain({NoInput}) \/ Settle \/ Render
SpecNames == InitNames /\ [][NextNames]_vars

\* the interactive loop of a session that is asked to exit while documents are
\* opened, edited and closed
ExitDocuments == { <<Untitled>>, <<Document(<<117>>, TRUE)>>, <<NamedA, Document(<<98>>, TRUE)>> }
ExitEvents ==
    { Key("ctrl_q"), Key("ctrl_n"), Key("ctrl_w"), Edit, Click("discard"), Click("cancel") }
InitExit == \E documents \in ExitDocuments : InitLoop(documents, 512 * MEBI)
NextExit ==
    \/ LoopRead(MaxExitIters, MaxExitEvents) \/ LoopClosed
    \/ Drain(ExitEvents) \/ Settle \/ LoopExit \/ Render
SpecExit == InitExit /\ [][NextExit]_vars

\* the interactive loop of a session in which tabs are closed with Alt+W: one
\* to three files are open, some with unsaved changes; a session that starts
\* with two starts with two dirty ones
DirtyB == Document(<<98>>, TRUE)
NamedC == Document(<<99>>, FALSE)
CloseDocuments ==
    { <<NamedA>>, <<DirtyB>>, <<DirtyB, DirtyB>>,
      <<NamedA, DirtyB, NamedC>>, <<DirtyB, NamedA, NamedC>>, <<NamedA, NamedC, NamedA>> }
CloseEvents == { Key("alt_w"), Key("ctrl_tab") }
InitClose == \E documents \in CloseDocuments : InitLoop(documents, 512 * MEBI)
NextClose ==
    \/ LoopRead(MaxCloseIters, MaxCloseEvents) \/ LoopClosed
    \/ Drain(CloseEvents) \/ Settle \/ Render
SpecClose == InitClose /\ [][NextClose]_vars

\* the interactive loop of a session with 1..MaxOpen files open, "a", "b", ..,
\* in which the user only switches between the tabs
OpenFiles(n) == [k \in 1..n |-> Document(<<96 + k>>, FALSE)]
SwitchEvents ==
    { Key("ctrl_tab"), Key("ctrl_shift_tab") } \cup { KeyDigit(k) : k \in 1..9 }
InitSwitch == \E n \in 1..MaxOpen : InitLoop(OpenFiles(n), 512 * MEBI)
NextSwitch ==
    \/ LoopRead(MaxSwitchIters, MaxSwitchEvents) \/ LoopClosed
    \/ Drain(SwitchEvents) \/ Settle \/ Render
SpecSwitch == InitSwitch /\ [][NextSwitch]_vars

----------------------------------------------------------------------------
\* the interactive loop of a session in which the user walks the folder
\* browser; the revision counter starts anywhere, also just before a carry
\* and before it wraps
StartRevisions == { RevisionZero, <<65535, 0, 0, 0>>, RevisionMax }
BrowseEvents ==
    { Key("f4"), Key("back") }
    \cup { Event("activate", k) : k \in 0..MaxEntry }
    \cup { Event("select", k) : k \in 0..MaxEntry }
InitBrowse ==
    \E rev \in StartRevisions :
       /\ InitLoopFrom([NewState(<<Untitled>>) EXCEPT
                           !.folder_browser_current_dir_revision = rev], 512 * MEBI)
       /\ syntax = NoSyntax
NextBrowse ==
    \/ LoopRead(MaxBrowseIters, MaxBrowseEvents) \/ LoopClosed
    \/ Drain(BrowseEvents) \/ Settle \/ Render
SpecBrowse == InitBrowse /\ [][NextBrowse]_vars

\* the interactive loop of a session in which the user shows, resizes and
\* hides the AI dock
DockEvents ==
    { Key("ctrl_alt_b"), Click("expand_up"), Click("minimize_down"), Click("close"),
      Escape }
InitDock == InitLoop(<<Untitled>>, 512 * MEBI)
NextDock ==
    \/ LoopRead(MaxDockIters, MaxDockEvents) \/ LoopClosed
    \/ Drain(DockEvents) \/ Settle \/ Render
SpecDock == InitDock /\ [][NextDock]_vars

\* the highlighter of a Rust file, or of a file of an unknown type, is given
\* a line: highlight_line paints it, then get_syntax_element is asked about
\* one of its bytes
Languages == { "Rust", "Unknown" }
RECURSIVE LinesOfLen(_)
LinesOfLen(n) ==
    IF n = 0 THEN { <<>> }
    ELSE { <<c>> \o rest : c \in LineChars, rest \in LinesOfLen(n - 1) }
Lines == UNION { LinesOfLen(n) : n \in 1..MaxLineLen }
InitSyntax ==
    /\ InitLoopFrom(NewState(<<Untitled>>), 512 * MEBI)
    /\ \E language \in Languages, line \in Lines :
          syntax = [NoSyntax EXCEPT !.language = language, !.line = line]
Highlight ==
    /\ syntax.calls = 0
    /\ syntax' = [syntax EXCEPT !.calls = 1,
                                !.highlighted = HighlightLine(syntax.language, syntax.line)]
    /\ UNCHANGED <<pc, negVars, build, restore_alive, teardowns, outcome, pending,
                   needs_settling, exit, iters, frames, renders, state, clipboard,
                   SCRATCH_ARENA_CAPACITY, batch, dispatched, pass, payload, output,
                   logVars>>
Query ==
    /\ syntax.calls = 1
    /\ \E position \in 0..(Len(syntax.line) - 1) :
          syntax' = [syntax EXCEPT
                       !.calls = 2, !.position = position,
                       !.element = GetSyntaxElement(syntax.language, syntax.line, position)]
    /\ UNCHANGED <<pc, negVars, build, restore_alive, teardowns, outcome, pending,
                   needs_settling, exit, iters, frames, renders, state, clipboard,
                   SCRATCH_ARENA_CAPACITY, batch, dispatched, pass, payload, output,
                   logVars>>
NextSyntax == Highlight \/ Query
SpecSyntax == InitSyntax /\ [][NextSyntax]_vars

----------------------------------------------------------------------------
(* C1: the teardown sequence is written exactly once on every exit path:   *)
(* whenever the process has ended (return of run with Ok or Err, or a      *)
(* panic during an iteration), RestoreModes wrote its sequence once.       *)
C1_TeardownExactlyOnce == outcome # "running" => teardowns = 1

(* C2: if fewer than 16 indexed-colour (OSC 4) replies arrived, the theme  *)
(* in effect after setup_terminal is the untouched DEFAULT_THEME.          *)
C2_DefaultUnlessAllIndexed ==
    (pc = "loop" /\ done /\ indexed_replies < 16) => theme = DEFAULT_THEME

(* C3: once a device-attributes reply has set `done`, setup_terminal makes *)
(* no further read and returns when the tokens of that read are consumed;  *)
(* while it is not set, every step at the head of the loop is a read.      *)
C3_ReadsUntilDeviceAttributes ==
    [][ /\ done => reads' = reads
        /\ (pc = "negotiate" /\ vt_stream = <<>> /\ done) => pc' = "loop"
        /\ (pc = "negotiate" /\ vt_stream = <<>> /\ ~done) => reads' = reads + 1
      ]_vars

\* negotiation ended by the device-attributes reply, with optional replies
\* before it and one after it in the same read
C3_Witness ==
    /\ pc = "loop" /\ done
    /\ color_responses >= 2
    /\ lastTok.kind = "Osc"

(* C4 as claimed: when the stream closes before a device-attributes reply, *)
(* the theme is the default and the width is 1 with no reflow.             *)
C4_ClosedMeansDefaults ==
    (pc = "loop" /\ ~done) =>
        theme = DEFAULT_THEME /\ unicode_width = 1 /\ reflows = 0

(* C4 as amended: when the stream closes before a device-attributes reply, *)
(* negotiation ends and applies what was gathered, as a normal end does:   *)
(* the theme is the default unless as many replies as the table has        *)
(* entries were counted, the width is 1 with no reflow unless the last     *)
(* cursor-position reply gave 2.                                           *)
C4_ClosedAppliesGathered ==
    (pc = "loop" /\ ~done) =>
        /\ theme = IF color_responses = IndexedColorsLen
                   THEN indexed_colors ELSE DEFAULT_THEME
        /\ unicode_width = IF ambiguous_width = 2 THEN 2 ELSE 1
        /\ reflows = IF ambiguous_width = 2 THEN 1 ELSE 0

\* the stream closed after a cursor-position reply [1,3] and 18 colour replies
C4_Witness ==
    /\ pc = "loop" /\ ~done
    /\ unicode_width = 2 /\ reflows = 1
    /\ theme # DEFAULT_THEME

\* the replies that are cut in two, at every position
C5_Payloads ==
    FragmentedReplies
    \cup { Reply4(1, Rgb(<<"f", "f", "f", "f">>, <<"0", "0", "8", "0">>, <<"0", "0", "8", "1">>)),
           Reply10(Rgb(<<"f", "f">>, <<"x", "y", "z", "w">>, <<"f", "f">>)),
           Reply4(16, Rgb(<<"f", "f">>, <<"f", "f">>, <<"f", "f">>)) }

(* C5: a reply delivered as fragment A (partial) then fragment B (not      *)
(* partial) leaves the colour table and the reply count as the single      *)
(* token A+B would, from every state negotiation can be in.                *)
C5_FragmentsParseAsWhole ==
    pc = "negotiate" =>
        \A p \in C5_Payloads : \A k \in Cuts(p) :
            LET split == HandleOsc(HandleOsc(NegState, SubSeq(p, 1, k), TRUE),
                                   SubSeq(p, k + 1, Len(p)), FALSE)
                whole == HandleOsc(NegState, p, FALSE)
            IN  /\ split.indexed_colors = whole.indexed_colors
                /\ split.color_responses = whole.color_responses

\* the two fragments of `4;3;rgb:00/80/ff` were consumed and slot 3 was set,
\* which the second fragment alone cannot do
C5_Witness ==
    /\ lastTok = Osc(<<"8", "0", "/", "f", "f">>, FALSE)
    /\ indexed_colors[3] # DEFAULT_THEME[3]
    /\ color_responses = 1
    /\ osc_buffer = <<>>

(* C6: after a non-partial OSC token has been processed, accepted or       *)
(* rejected, the accumulator is empty.                                     *)
C6_AccumulatorCleared ==
    (lastTok.kind = "Osc" /\ ~lastTok.partial) => osc_buffer = <<>>

(* C7 as claimed: a cursor-position reply sets ambiguous_width to its      *)
(* second parameter minus one; [1,3] gives 2 and [1,1] gives 1.            *)
C7_WidthFromCursorPosition ==
    (lastTok.kind = "Csi" /\ lastTok.final_byte = "R") =>
        /\ ambiguous_width = lastTok.params[2] - 1
        /\ lastTok.params = <<1, 3>> => ambiguous_width = 2
        /\ lastTok.params = <<1, 1>> => ambiguous_width = 1

(* C7 as amended: a cursor-position reply sets ambiguous_width to its      *)
(* second parameter minus one, so [1,3] gives 2 and [1,1] gives 0; the     *)
(* multiplier in effect after negotiation is 2 when that value is 2 and    *)
(* stays 1 otherwise, so after [1,1] it is 1.                              *)
C7_WidthMinusOne ==
    /\ (lastTok.kind = "Csi" /\ lastTok.final_byte = "R") =>
          /\ ambiguous_width = lastTok.params[2] - 1
          /\ lastTok.params = <<1, 3>> => ambiguous_width = 2
          /\ lastTok.params = <<1, 1>> => ambiguous_width = 0
    /\ pc = "loop" => unicode_width = IF ambiguous_width = 2 THEN 2 ELSE 1

\* negotiation ended right after a cursor-position reply [1,1]
C7_Witness ==
    /\ lastTok = Csi("R", 1, 1)
    /\ pc = "loop"
    /\ ambiguous_width = 0 /\ unicode_width = 1

\* a part of a colour field that the code's parse rejects: not 2 or 4
\* characters long, or not hexadecimal
PartFails(part) == Len(part) \notin {2, 4} \/ FromStrRadix(part, 16) < 0

\* the token is a complete colour reply with a slot and rgb:, and one of the
\* three components of its colour field fails to parse (a missing one too)
ColorFieldFails(s, token) ==
    /\ CountedSlot(s, token) >= 0
    /\ LET splits == SplitTerminator(OscText(s, token.data), ";")
           iter   == SplitTerminator(SubSeq(OscColorParam(splits), 5,
                                            Len(OscColorParam(splits))), "/")
       IN  \E k \in 1..3 : k > Len(iter) \/ PartFails(iter[k])

(* C10: a colour reply whose colour field fails to parse changes no slot   *)
(* of the colour table and does not change the count of replies.           *)
C10_BadColorIgnored ==
    [][ (pc = "negotiate" /\ vt_stream # <<>>
         /\ ColorFieldFails(NegState, Head(vt_stream)))
        => (indexed_colors' = indexed_colors /\ color_responses' = color_responses)
      ]_vars

\* the 8-bit value the claim gives for a sample
Reduced(c) == IF c.bits = 16 THEN (c.v * 255 + 32767) \div 65535 ELSE c.v

\* the bytes of the stored colour in which the code keeps the components
StoredChannels(color) ==
    << color.rgb % 256, (color.rgb \div 256) % 256, (color.rgb \div 65536) % 256 >>

(* C8: each stored 8-bit channel of a colour reply equals                  *)
(* (v*255+32767) div 65535 for its 16-bit sample v, is within 0..255, and  *)
(* a 2-digit sample is stored as it is.                                    *)
C8_ChannelRounding ==
    (sample # NoSample /\ lastTok.kind = "Osc") =>
        \A k \in 1..3 :
            /\ StoredChannels(indexed_colors[SampleSlot])[k] = Reduced(sample[k])
            /\ StoredChannels(indexed_colors[SampleSlot])[k] \in 0..255
            /\ (sample[k].bits = 16 /\ sample[k].v = 0) =>
                   StoredChannels(indexed_colors[SampleSlot])[k] = 0
            /\ (sample[k].bits = 16 /\ sample[k].v = 65535) =>
                   StoredChannels(indexed_colors[SampleSlot])[k] = 255

\* the reply rgb:80ff/ab/ff00 was stored: 0xff00 rounds down to 254
C8_Witness ==
    /\ sample # NoSample /\ lastTok.kind = "Osc"
    /\ sample[3] = [v |-> 65280, bits |-> 16]
    /\ StoredChannels(indexed_colors[SampleSlot]) = <<128, 171, 254>>
    /\ color_responses = 1

C11_Target(data) ==
    LET fields == SplitTerminator(data, ";")
        key    == NextOr(fields, 1, <<>>)
        index  == FromStrRadix(NextOr(fields, 2, <<>>), 10)
    IN  IF key = <<"4">> /\ index >= 0 /\ index < 16
           /\ StartsWith(NextOr(fields, 3, <<>>), RgbPrefix)
        THEN index
        ELSE IF key = <<"1", "0">> /\ StartsWith(NextOr(fields, 2, <<>>), RgbPrefix)
        THEN IndexedForeground
        ELSE IF key = <<"1", "1">> /\ StartsWith(NextOr(fields, 2, <<>>), RgbPrefix)
        THEN IndexedBackground
        ELSE 0 - 1

\* the next token is a reply that arrives whole: a non-partial OSC token that
\* is the first token of all or follows the last token of another reply, so
\* that the tokenizer has no fragment outstanding
C11_WholeReply ==
    /\ pc = "negotiate" /\ vt_stream # <<>>
    /\ Head(vt_stream).kind = "Osc" /\ ~Head(vt_stream).partial
    /\ lastTok = NoToken \/ (lastTok.kind = "Osc" /\ ~lastTok.partial)

(* C11: the first field of an OSC reply selects the slot (4;<index 0-15>,  *)
(* 10 foreground, 11 background): a reply that names a slot and carries    *)
(* rgb: writes that slot only and is counted; a reply with another key,    *)
(* with an index that is not a number below 16, or without rgb: changes no *)
(* slot and not the count.                                                 *)
C11_KeySelectsSlot ==
    [][ C11_WholeReply =>
          LET target == C11_Target(Head(vt_stream).data)
          IN  IF target >= 0
              THEN /\ color_responses' = color_responses + 1
                   /\ \A i \in DOMAIN indexed_colors :
                        i # target => indexed_colors'[i] = indexed_colors[i]
                   /\ indexed_colors'[target].a = 255
              ELSE indexed_colors' = indexed_colors
                   /\ color_responses' = color_responses
      ]_vars

\* T1 of the clipboard policy: 128 KiB
C12_T1 == 128 * 1024

(* C12: when the clipboard needs a host sync and its payload is shorter    *)
(* than T1 = 128 KiB, or "always send" was chosen earlier, the same update *)
(* pass marks the clipboard synchronized and sets the broadcast flag, and  *)
(* shows no prompt.                                                        *)
C12_SmallSyncsAtOnce ==
    (pc \in {"drain", "settle"} /\ pass.wants
     /\ (pass.data_len < C12_T1 \/ pass.always))
    => /\ ~clipboard.wants_host_sync
       /\ state.osc_clipboard_sync
       /\ pass.prompt = NoPrompt

\* after "Always" was chosen, a payload of a quarter of the scratch capacity
\* was copied and synchronized in the pass that copied it
C12_Witness ==
    /\ pc \in {"drain", "settle"} /\ pass.wants /\ pass.always
    /\ pass.data_len = SCRATCH_ARENA_CAPACITY \div 4
    /\ ~clipboard.wants_host_sync /\ state.osc_clipboard_sync
    /\ pass.prompt = NoPrompt

\* a payload of the middle size class waits for the user's choice
C13_Undecided ==
    /\ clipboard.wants_host_sync /\ payload.decision = "none"
    /\ clipboard.len >= C12_T1
    /\ clipboard.len < SCRATCH_ARENA_CAPACITY \div 4

(* C13: for T1 <= L < T3 (a quarter of the scratch capacity) without       *)
(* "always send", the prompt has exactly the controls Always, Yes and No,  *)
(* and exactly one has the default focus: No when L >= 10*T1, Yes          *)
(* otherwise; nothing is synced until a choice is made; Yes sets the       *)
(* broadcast flag, Always sets it and "always send", No leaves it unset,   *)
(* and each choice marks the clipboard synchronized.                       *)
C13_PromptGatesSync ==
    /\ (pc \in {"drain", "settle"} /\ pass.wants /\ ~pass.always
        /\ pass.data_len >= C12_T1
        /\ pass.data_len < SCRATCH_ARENA_CAPACITY \div 4)
       => /\ pass.prompt.controls = <<"always", "yes", "no">>
          /\ pass.prompt.focus = IF pass.data_len >= 10 * C12_T1 THEN {"no"} ELSE {"yes"}
          /\ pass.done = "none" => clipboard.wants_host_sync
          /\ payload.decision = "yes" =>
                state.osc_clipboard_sync /\ ~clipboard.wants_host_sync
          /\ payload.decision = "always" =>
                /\ state.osc_clipboard_sync /\ state.osc_clipboard_always_send
                /\ ~clipboard.wants_host_sync
          /\ payload.decision = "no" =>
                ~state.osc_clipboard_sync /\ ~clipboard.wants_host_sync
    /\ C13_Undecided => ~payload.broadcast

\* T3 of the clipboard policy: a quarter of the scratch capacity, 128 MiB for
\* a capacity of 512 MiB
C14_T3 ==
    IF SCRATCH_ARENA_CAPACITY = 512 * 1024 * 1024
    THEN 128 * 1024 * 1024
    ELSE SCRATCH_ARENA_CAPACITY \div 4

(* C14: for a payload of T3 bytes or more the prompt offers only the       *)
(* acknowledgement control, and confirming it sets the broadcast flag; the *)
(* payload is then broadcast in the next frame that is composed.           *)
C14_AckOnlyThenSync ==
    /\ (pc \in {"drain", "settle"} /\ pass.wants /\ ~pass.always
        /\ pass.data_len >= C14_T3)
       => /\ pass.prompt.controls = <<"ok">>
          /\ pass.done # "false" => payload.decision \in {"none", "ok"}
          /\ pass.done = "true" =>
                state.osc_clipboard_sync /\ ~clipboard.wants_host_sync
    /\ payload.decision = "ok" =>
          IF payload.framed THEN payload.sent ELSE state.osc_clipboard_sync

\* a payload of 128 MiB was confirmed with a capacity of 512 MiB, and the
\* frame composed next carried it
C14_Witness ==
    /\ SCRATCH_ARENA_CAPACITY = 512 * MEBI
    /\ pc = "loop" /\ payload.decision = "ok"
    /\ clipboard.len = 128 * MEBI
    /\ payload.framed /\ payload.sent
    /\ output.osc52 = clipboard.len

C16_OneFramePerIteration ==
    [][ /\ (frames' # frames \/ renders' # renders)
           => /\ frames' = frames + 1 /\ renders' = renders + 1
              /\ frames = iters - 1 /\ renders = iters - 1
              /\ pending = 0 /\ Len(dispatched) = batch + 1
              /\ ~needs_settling
              /\ iters' = iters
        /\ iters' # iters => (frames = iters /\ renders = iters)
      ]_vars

\* two reads of two events each were followed by one frame each
C16_Witness ==
    pc = "loop" /\ iters = 2 /\ batch = 2 /\ frames = 2 /\ renders = 2

(* C17: while the batch of a read that decodes to n >= 0 events is         *)
(* drained, draw is called n+1 times: once with each event, in order, and  *)
(* then once without an event.                                             *)
C17_DispatchPerEventPlusOne ==
    /\ pc = "drain" => /\ Len(dispatched) = batch - pending
                       /\ \A k \in 1..Len(dispatched) : dispatched[k]
    /\ pc = "settle" => dispatched = [k \in 1..(batch + 1) |-> k <= batch]

\* a read of two events was drained with three calls
C17_Witness ==
    pc = "settle" /\ batch = 2 /\ dispatched = <<TRUE, TRUE, FALSE>>

(* C18: once the UI has set "exit requested", no frame is rendered or      *)
(* written in that iteration or later, and no further read is made.        *)
C18_NoFrameAfterExit ==
    [][ exit => (exit' /\ frames' = frames /\ renders' = renders /\ iters' = iters
                 /\ output' = output) ]_vars

\* the session ended on an exit request made in its second iteration: one
\* frame for the first, none for the second
C18_Witness ==
    pc = "exited" /\ exit /\ outcome = "success" /\ iters = 2 /\ frames = 1

(* C19: a read of the loop that times out with no data is not an error:    *)
(* the iteration makes one dispatch without an event and renders a frame.  *)
(* A closed input stream ends the session with no further dispatch or      *)
(* frame, run returns Ok and the exit code is success.                     *)
C19_TimeoutAndClosure ==
    [][ /\ (pc = "drain" /\ batch = 0)
           => (pc' = "settle" /\ dispatched' = <<FALSE>> /\ ~exit')
        /\ (pc = "settle" /\ batch = 0)
           => /\ ~exit' /\ outcome' = "running"
              /\ pc' = "loop" => frames' = frames + 1
        /\ (pc = "loop" /\ pc' = "exited")
           => /\ outcome' = "success"
              /\ frames' = frames /\ renders' = renders
              /\ dispatched' = dispatched /\ iters' = iters
      ]_vars

\* a read timed out, its frame was written, then the stream closed
C19_Witness ==
    /\ pc = "exited" /\ outcome = "success" /\ ~exit
    /\ iters = 1 /\ batch = 0 /\ dispatched = <<FALSE>> /\ frames = 1

(* C20: a frame carries a title update if and only if the active           *)
(* document's name (empty without an active document) differs from the     *)
(* name of the last title emitted; after the frame the remembered name is  *)
(* the current name.                                                       *)
C20_TitleOnlyOnChange ==
    [][ frames' = frames + 1
        => /\ (output'.title # NoTitle) <=> (ActiveFilename(state) # state.osc_title_filename)
           /\ state'.osc_title_filename = ActiveFilename(state)
           /\ ActiveFilename(state') = ActiveFilename(state)
      ]_vars

\* the second of two frames found the name unchanged and carried no title
C20_Witness ==
    /\ pc = "loop" /\ frames = 2 /\ output.title = NoTitle
    /\ state.osc_title_filename = ActiveFilename(state)
    /\ state.osc_title_filename # <<>>

(* C21: over the frames of a session, a title update is emitted in exactly  *)
(* the frames whose active name differs from the name of the frame before   *)
(* (the empty name before the first frame): once when a name becomes the    *)
(* active one, and in no later frame while it stays.                        *)
C21_TitleOncePerName ==
    \A k \in 1..Len(frame_log) :
        LET before == IF k = 1 THEN <<>> ELSE frame_log[k - 1].name
        IN  (frame_log[k].title # NoTitle) <=> (frame_log[k].name # before)

\* three frames: the first document's name, the second's after a switch, and
\* the first's again after switching back, each with its title update
C21_Witness ==
    /\ Len(frame_log) = 3
    /\ frame_log[1].name = frame_log[3].name
    /\ frame_log[1].name # frame_log[2].name
    /\ \A k \in 1..3 : frame_log[k].title # NoTitle

\* the name embedded in a title update written for a non-empty name: what
\* stands between "ESC ] 0 ;" and " - edit ESC \"
C22_Embedded(title) == SubSeq(title, 5, Len(title) - 9)

(* C22: the name embedded in a title update contains no byte in 0x00-0x1F  *)
(* (no ESC, no BEL), for every file name: each such byte of the name is     *)
(* replaced by '_', every other byte is unchanged, the length is kept, and  *)
(* sanitizing the result again changes nothing.                            *)
C22_TitleNameSanitized ==
    (frame_log # <<>> /\ frame_log[Len(frame_log)].title # NoTitle) =>
        LET name     == frame_log[Len(frame_log)].name
            embedded == C22_Embedded(frame_log[Len(frame_log)].title)
        IN  /\ Len(embedded) = Len(name)
            /\ \A k \in 1..Len(embedded) :
                  /\ embedded[k] \notin 0..31
                  /\ embedded[k] = IF name[k] \in 0..31 THEN 95 ELSE name[k]
            /\ SanitizeControlChars(embedded) = embedded
            /\ SanitizeControlChars(name) = embedded

\* the title written for the name "ESC BEL" carries "__"
C22_Witness ==
    /\ frame_log # <<>>
    /\ frame_log[Len(frame_log)].name = <<27, 7>>
    /\ output.title # NoTitle
    /\ C22_Embedded(output.title) = <<95, 95>>

\* the frames written so far that carry an OSC 52
C23_Broadcasts(log) ==
    Cardinality({ k \in 1..Len(log) :
                    \E j \in 1..Len(log[k].parts) : log[k].parts[j] = "osc52" })

(* C23: a frame carries a clipboard broadcast only if the broadcast flag    *)
(* was set when it was composed; the flag is false after every frame and    *)
(* at every read of the loop; and there are never more broadcasts than      *)
(* decisions to sync.                                                       *)
C23_BroadcastClearsFlag ==
    [][ /\ (frames' = frames + 1 /\ output'.osc52 # NoBroadcast)
           => state.osc_clipboard_sync
        /\ frames' = frames + 1 => ~state'.osc_clipboard_sync
        /\ pc = "loop" => ~state.osc_clipboard_sync
        /\ C23_Broadcasts(frame_log') <= syncs'
      ]_vars

\* two payloads were synced, in two iterations, and each frame carried one
C23_Witness ==
    /\ pc = "loop" /\ syncs = 2 /\ Len(frame_log) = 2
    /\ C23_Broadcasts(frame_log) = 2
    /\ ~state.osc_clipboard_sync

\* how often a part occurs in the output of a frame
C24_Count(parts, part) == Cardinality({ j \in 1..Len(parts) : parts[j] = part })

(* C24: every frame holds the rendered bytes first, then at most one title  *)
(* update and at most one clipboard update, and is written with one write:  *)
(* there are as many writes as frames, at most one per iteration.           *)
C24_OneOfEachPerFrame ==
    /\ Len(frame_log) = frames /\ frames = renders /\ frames <= iters
    /\ \A k \in 1..Len(frame_log) :
          LET parts == frame_log[k].parts
          IN  /\ parts[1] = "rendered" /\ C24_Count(parts, "rendered") = 1
              /\ C24_Count(parts, "title") <= 1
              /\ C24_Count(parts, "osc52") <= 1
              /\ \A j \in 1..Len(parts) : parts[j] \in {"rendered", "title", "osc52"}

\* the first frame carried the title and the broadcast of a payload copied
\* in the first iteration
C24_Witness ==
    /\ pc = "loop" /\ frames = 1
    /\ frame_log[1].parts = <<"rendered", "title", "osc52">>
    /\ output.title # NoTitle /\ output.osc52 = clipboard.len

\* run is in its interactive loop
C25_InLoop == pc \in {"loop", "drain", "settle"}

(* C25: negotiation runs exactly once per session and strictly before the   *)
(* first read of the loop: setup_terminal is entered once, while no read of *)
(* the loop has been made, and once it has returned no step changes the     *)
(* colour table, the width multiplier or the reflow count, reads for        *)
(* negotiation or enters it again.                                          *)
C25_NegotiatedOnceBeforeLoop ==
    [][ /\ probes' <= 1
        /\ pc' = "negotiate" => (iters' = 0 /\ probes' = 1)
        /\ C25_InLoop
           => /\ probes = 1
              /\ pc' # "negotiate"
              /\ probes' = probes /\ reads' = reads
              /\ theme' = theme /\ indexed_colors' = indexed_colors
              /\ unicode_width' = unicode_width /\ reflows' = reflows
      ]_vars

\* two iterations of the loop ran after a negotiation that found the width 2
C25_Witness ==
    /\ pc = "loop" /\ iters = 2 /\ frames = 2
    /\ probes = 1 /\ unicode_width = 2 /\ reflows = 1

\* the calls of run that precede sys::switch_modes, and that call
C26_BeforeSwitch == {"sys_init", "arena_init", "state_new", "handle_args", "switch_modes"}

(* C26: setup_terminal writes the mode-enabling sequence and the probe only *)
(* after sys::switch_modes has returned Ok; when it returns Err, run        *)
(* returns the error with no probe written, no read of negotiation and no   *)
(* iteration of the loop made, and the process ends with the failure code.  *)
C26_ProbeAfterModeSwitch ==
    /\ pc \in C26_BeforeSwitch => probes = 0
    /\ probes > 0 => run_err \notin C26_BeforeSwitch
    /\ run_err = "switch_modes"
       => /\ pc = "exited" /\ outcome = "failure"
          /\ probes = 0 /\ reads = 0 /\ iters = 0 /\ frames = 0
          /\ ~restore_alive

\* sys::switch_modes failed and the process ended
C26_Witness ==
    /\ run_err = "switch_modes" /\ pc = "exited" /\ outcome = "failure"
    /\ probes = 0

\* a token that is neither a CSI with final byte c or R nor an OSC
C27_Other(token) ==
    /\ token.kind # "Osc"
    /\ token.kind = "Csi" => token.final_byte \notin {"c", "R"}

(* C27: a token that is neither a CSI reply with final byte c or R nor an   *)
(* OSC reply and arrives during negotiation changes no negotiation state    *)
(* (done, accumulator, colour table, reply count, width) and is consumed    *)
(* there: it reaches neither the UI nor the events of the loop, which       *)
(* starts with no token and no event left over.                             *)
C27_OtherTokensDiscarded ==
    [][ /\ (pc = "negotiate" /\ vt_stream # <<>> /\ C27_Other(Head(vt_stream)))
           => /\ done' = done /\ osc_buffer' = osc_buffer
              /\ indexed_colors' = indexed_colors
              /\ color_responses' = color_responses
              /\ ambiguous_width' = ambiguous_width
              /\ vt_stream' = Tail(vt_stream)
              /\ state' = state /\ pending' = pending /\ dispatched' = dispatched
        /\ (pc = "negotiate" /\ pc' # "negotiate")
           => (vt_stream = <<>> /\ vt_stream' = <<>> /\ pending' = 0 /\ dispatched' = <<>>)
        /\ pc # "negotiate" => vt_stream' = <<>>
      ]_vars

\* text arrived after the device-attributes reply, in the same read; the
\* first read of the loop then timed out and its frame was written without
\* any event having been dispatched
C27_Witness ==
    /\ lastTok = Text /\ done
    /\ pc = "loop" /\ iters = 1 /\ batch = 0 /\ dispatched = <<FALSE>> /\ frames = 1

(* C28: after the batch, while the UI reports that it needs settling, the  *)
(* next step of the loop is an update pass without input, however many      *)
(* there have been, and no frame is written; the loop leaves the settle     *)
(* phase only when the UI reports settled, and then it does reach the exit  *)
(* check and, without an exit request, the frame.                           *)
C28_SettleUntilSettled ==
    /\ [][ /\ (pc = "settle" /\ needs_settling)
              => /\ pc' = "settle"
                 /\ frames' = frames /\ renders' = renders
                 /\ dispatched' = dispatched /\ pending' = pending
                 /\ settles' = (IF settles < MaxSettles THEN settles + 1 ELSE settles)
           /\ (pc = "settle" /\ pc' # "settle") => ~needs_settling
           /\ frames' # frames => ~needs_settling
         ]_vars
    /\ (pc = "settle" /\ ~needs_settling) ~> (pc \in {"loop", "exited"})

\* a frame was written after at least MaxSettles passes of the settle loop
C28_Witness ==
    pc = "loop" /\ frames = 1 /\ iters = 1 /\ settles = MaxSettles

(* C29: the width multiplier in effect is 1 or 2 whatever the replies; the  *)
(* documents are reflowed once, at the end of negotiation, exactly when the *)
(* multiplier is resolved to 2; the negotiated width changes only on a      *)
(* cursor-position reply, so without one the multiplier stays 1 and there   *)
(* is no reflow.                                                            *)
C29_WidthOneOrTwo ==
    [][ /\ unicode_width \in {1, 2} /\ unicode_width' \in {1, 2}
        /\ reflows' # reflows
           => /\ pc = "negotiate" /\ pc' = "loop"
              /\ reflows = 0 /\ reflows' = 1 /\ unicode_width' = 2
        /\ unicode_width' # unicode_width => (pc' = "loop" /\ reflows' = 1)
        /\ pc' = "loop"
           => /\ unicode_width' = (IF ambiguous_width' = 2 THEN 2 ELSE 1)
              /\ reflows' = (IF unicode_width' = 2 THEN 1 ELSE 0)
        /\ ambiguous_width' # ambiguous_width
           => /\ pc = "negotiate" /\ vt_stream # <<>>
              /\ Head(vt_stream).kind = "Csi" /\ Head(vt_stream).final_byte = "R"
        /\ pc = "negotiate" => (unicode_width = 1 /\ reflows = 0)
      ]_vars

\* negotiation ended after a cursor-position reply [1,3]: the multiplier is 2
\* and the documents were reflowed once
C29_Witness ==
    pc = "loop" /\ ambiguous_width = 2 /\ unicode_width = 2 /\ reflows = 1

\* the pieces of a title update: OSC 0 ;  the separator, the application's
\* name, and ST
C30_Osc0 == <<27, 93, 48, 59>>
C30_Separator == <<32, 45, 32>>
C30_AppName == <<101, 100, 105, 116>>
C30_ST == <<27, 92>>

\* the name as it may appear in a title: control bytes replaced by '_'
C30_Sanitized(name) == [k \in 1..Len(name) |-> IF name[k] \in 0..31 THEN 95 ELSE name[k]]

(* C30 as claimed: every title update is OSC 0 ; <sanitized-name> ST or     *)
(* OSC 0 ; <sanitized-name> - <app-name> ST: the sanitized name of the      *)
(* active document is always there and the " - <app-name>" suffix is the    *)
(* optional part, also when the active name is empty.                       *)
C30_NameThenOptionalApp ==
    \A k \in 1..Len(frame_log) :
        frame_log[k].title # NoTitle =>
            \/ frame_log[k].title =
                  C30_Osc0 \o C30_Sanitized(frame_log[k].name) \o C30_ST
            \/ frame_log[k].title =
                  C30_Osc0 \o C30_Sanitized(frame_log[k].name)
                  \o C30_Separator \o C30_AppName \o C30_ST

(* C30 as amended: every title update is OSC 0 ; [<sanitized-name> - ]      *)
(* <app-name> ST: the application's name is always there, and the sanitized *)
(* name of the active document with the separator " - " stands before it    *)
(* exactly when that name is not empty.                                     *)
C30_OptionalNameThenApp ==
    \A k \in 1..Len(frame_log) :
        frame_log[k].title # NoTitle =>
            frame_log[k].title =
                IF frame_log[k].name # <<>>
                THEN C30_Osc0 \o C30_Sanitized(frame_log[k].name)
                     \o C30_Separator \o C30_AppName \o C30_ST
                ELSE C30_Osc0 \o C30_AppName \o C30_ST

\* both tabs were closed: the second frame's title is the application's name
\* alone, after a first frame that named the remaining file
C30_Witness ==
    /\ Len(frame_log) = 2
    /\ frame_log[1].name # <<>> /\ frame_log[1].title # NoTitle
    /\ frame_log[2].name = <<>>
    /\ frame_log[2].title = <<27, 93, 48, 59, 101, 100, 105, 116, 27, 92>>

(* C31: a clipboard payload of T1 = 128 KiB or more is never written to    *)
(* the terminal as an OSC 52 broadcast unless "always send" is set or the  *)
(* user confirmed the prompt shown for that payload (Yes, Always or OK),   *)
(* also when a small copy and a large one are dispatched within one batch. *)
C31_SizeGateHoldsAcrossBatch ==
    (payload.broadcast /\ clipboard.len >= LARGE_CLIPBOARD_THRESHOLD)
    => \/ state.osc_clipboard_always_send
       \/ payload.decision \in {"yes", "always", "ok"}

(* C32: setup_terminal installs the negotiated colour table exactly when   *)
(* the number of accepted colour replies equals the number of entries of   *)
(* the table. Every accepted reply counts each time it arrives: OSC 4 with *)
(* an index below 16, OSC 10 and OSC 11, duplicates and replies after the  *)
(* device-attributes reply included. With any other count, smaller or      *)
(* larger, the default theme is kept.                                      *)
C32_InstalledIffCountEqualsLen ==
    [][ /\ (pc = "negotiate" /\ vt_stream # <<>>) =>
              color_responses' = color_responses
                + (IF CountedSlot(NegState, Head(vt_stream)) \in 0..17 THEN 1 ELSE 0)
        /\ (pc = "negotiate" /\ vt_stream = <<>>) =>
              color_responses' = color_responses
        /\ (pc = "negotiate" /\ pc' = "loop") =>
              theme' = IF color_responses = IndexedColorsLen
                       THEN indexed_colors ELSE DEFAULT_THEME
      ]_vars

\* the table was installed with slot 15 never answered: 15 indexed replies and
\* three for the foreground and background, the last after the device attributes
C32_Witness ==
    /\ pc = "loop" /\ done
    /\ color_responses = IndexedColorsLen /\ indexed_replies = 15
    /\ lastTok = Osc(Reply11(BatchColor), FALSE)
    /\ theme = indexed_colors /\ theme # DEFAULT_THEME
    /\ theme[15] = DEFAULT_THEME[15]

(* C33: "always send" only ever changes from false to true, by the Always  *)
(* control, and is never reset during the session; once it is true, every  *)
(* later clipboard change is synced without a prompt whatever its length,  *)
(* also at a quarter of the scratch capacity and above.                    *)
C33_AlwaysSendIsSticky ==
    /\ [][ /\ state.osc_clipboard_always_send => state'.osc_clipboard_always_send
           /\ (~state.osc_clipboard_always_send /\ state'.osc_clipboard_always_send)
              => /\ pc = "drain"
                 /\ "always" \in Pressed(pass'.prompt, Click("always"))
                 /\ pass'.done = "true"
                 /\ payload'.decision = "always"
           /\ (state.osc_clipboard_always_send /\ pc \in {"drain", "settle"}
               /\ pass'.wants)
              => /\ pass'.prompt = NoPrompt
                 /\ payload'.decision = "immediate"
                 /\ state'.osc_clipboard_sync
                 /\ ~clipboard'.wants_host_sync
         ]_vars
    /\ [](state.osc_clipboard_always_send => ~clipboard.wants_host_sync)

\* Always was chosen for one payload; a later payload of a quarter of the
\* scratch capacity went out in the next frame without a prompt
C33_Witness ==
    /\ pc = "loop" /\ state.osc_clipboard_always_send
    /\ clipboard.len = SCRATCH_ARENA_CAPACITY \div 4
    /\ payload.decision = "immediate" /\ payload.sent
    /\ pass.prompt = NoPrompt
    /\ output.osc52 = clipboard.len

(* C34: exit handling never discards unsaved work: clean active documents  *)
(* are removed one by one, the first dirty one stops the removal and stays *)
(* open, and exit is set only when no document remains; in every reachable *)
(* state, exit requested implies that no document is open.                 *)
C34_ExitOnlyWithoutDocuments == exit => DocumentsLen(state) = 0

\* what the Alt+W shortcut makes of the state it finds
C35_AltW == Shortcuts(state, Key("alt_w"))

(* C35: Alt+W removes the active document only when more than one          *)
(* document is open and the active one is not dirty; with a dirty active   *)
(* document it sets wants_close and removes nothing; with at most one      *)
(* document open it removes nothing and sets nothing. Alt+W never removes  *)
(* a dirty document and never the last one.                                *)
C35_AltWClosesCleanTabOnly ==
    /\ [](IF DocumentsLen(state) > 1 /\ ~Active(state).dirty
          THEN /\ DocumentsLen(C35_AltW) = DocumentsLen(state) - 1
               /\ C35_AltW.documents =
                     [k \in 1..(DocumentsLen(state) - 1) |->
                        state.documents[IF k <= state.active_index THEN k ELSE k + 1]]
               /\ C35_AltW.wants_close = state.wants_close
          ELSE IF DocumentsLen(state) > 1
          THEN C35_AltW = [state EXCEPT !.wants_close = TRUE]
          ELSE C35_AltW = state)
    /\ [][ (state'.documents # state.documents
            /\ ~state.wants_close /\ ~state.wants_exit)
           => /\ DocumentsLen(state) > 1
              /\ ~Active(state).dirty
              /\ DocumentsLen(state') = DocumentsLen(state) - 1
              /\ \A k \in 1..DocumentsLen(state') :
                    state'.documents[k]
                      = state.documents[IF k <= state.active_index THEN k ELSE k + 1]
         ]_vars

\* the first event of the session was Alt+W on the clean first of three tabs:
\* it is gone, the dirty second one is active and still open
C35_Witness ==
    /\ iters = 1 /\ dispatched = <<TRUE>>
    /\ state.documents = <<DirtyB, NamedC>>
    /\ state.active_index = 0 /\ ~state.wants_close

\* the state after `count` presses of one shortcut
RECURSIVE C36_Presses(_, _, _)
C36_Presses(st, input, count) ==
    IF count = 0 THEN st ELSE C36_Presses(Shortcuts(st, input), input, count - 1)

(* C36: with n > 1 open documents and active index i, Ctrl+Tab sets the    *)
(* active index to (i+1) mod n and Ctrl+Shift+Tab to (i-1) mod n, so each  *)
(* undoes the other and n presses of either return to i; Ctrl+k, k in      *)
(* 1..9, sets the index to k-1 only when n >= k and otherwise changes      *)
(* nothing. After any sequence of these shortcuts the index is below n.    *)
C36_TabSwitching ==
    LET n == DocumentsLen(state)
        i == state.active_index
        next == Shortcuts(state, Key("ctrl_tab"))
        prev == Shortcuts(state, Key("ctrl_shift_tab"))
    IN  /\ i < n
        /\ n > 1 =>
              /\ next = [state EXCEPT !.active_index = (i + 1) % n]
              /\ prev = [state EXCEPT !.active_index = (i + n - 1) % n]
              /\ Shortcuts(next, Key("ctrl_shift_tab")) = state
              /\ Shortcuts(prev, Key("ctrl_tab")) = state
              /\ C36_Presses(state, Key("ctrl_tab"), n) = state
              /\ C36_Presses(state, Key("ctrl_shift_tab"), n) = state
        /\ \A k \in 1..9 :
              Shortcuts(state, KeyDigit(k))
                = IF n >= k THEN [state EXCEPT !.active_index = k - 1] ELSE state

\* with more than nine tabs open, the first event of the session made the last
\* tab the active one: Ctrl+Shift+Tab wrapped around from the first
C36_Witness ==
    /\ iters = 1 /\ dispatched = <<TRUE>>
    /\ DocumentsLen(state) > 9
    /\ state.active_index = DocumentsLen(state) - 1

\* rev2 is rev plus one, modulo 2^64
C37_Incremented(rev, rev2) ==
    \/ rev = <<65535, 65535, 65535, 65535>> /\ rev2 = <<0, 0, 0, 0>>
    \/ \E k \in 1..4 :
          /\ rev[k] < 65535 /\ rev2[k] = rev[k] + 1
          /\ \A j \in 1..4 : (j < k => rev[j] = 65535 /\ rev2[j] = 0)
                             /\ (j > k => rev2[j] = rev[j])

\* the entries that can be activated: those of the list drawn, and ".."
C37_Entries ==
    { state.folder_browser_entries.list[k] :
        k \in 1..Len(state.folder_browser_entries.list) } \cup { DotDot }

(* C37: in the folder browser, whenever an activated entry changes the     *)
(* current directory, the entry cache is set to none, the selection index  *)
(* to 0 and the directory revision is incremented by one (wrapping); when  *)
(* the directory does not change, none of these four fields changes. A     *)
(* path is returned for opening only when the entry is a file. Hence a     *)
(* populated entry cache always lists the current directory.               *)
C37_CacheFollowsDirectory ==
    /\ [](\A entry \in C37_Entries :
            LET updated == UpdateFolderBrowserPath(state, entry)
                target == JoinNormalized(state.folder_browser_current_dir, entry)
            IN  /\ IF updated.st.folder_browser_current_dir
                          # state.folder_browser_current_dir
                   THEN /\ updated.st.folder_browser_entries = NoEntries
                        /\ updated.st.folder_browser_selected = 0
                        /\ C37_Incremented(state.folder_browser_current_dir_revision,
                                           updated.st.folder_browser_current_dir_revision)
                   ELSE updated.st = state
                /\ updated.path # NoPath =>
                      /\ updated.path = target
                      /\ target \notin FsDirs
                      /\ \E dir \in FsDirs :
                            \E k \in 1..Len(FsFiles(dir)) :
                               target = Append(dir, FsFiles(dir)[k]))
    /\ [](state.folder_browser_entries.some =>
            /\ state.folder_browser_entries.of = state.folder_browser_current_dir
            /\ state.folder_browser_entries.list
                 = DirsFiles(state.folder_browser_current_dir))
    /\ [][ IF state'.folder_browser_current_dir # state.folder_browser_current_dir
           THEN /\ state'.folder_browser_entries = NoEntries
                /\ state'.folder_browser_selected = 0
                /\ C37_Incremented(state.folder_browser_current_dir_revision,
                                   state'.folder_browser_current_dir_revision)
           ELSE state'.folder_browser_current_dir_revision
                  = state.folder_browser_current_dir_revision
         ]_vars

\* the browser went up from "/a" to "/", which wrapped the revision to zero;
\* the cache was filled again from "/" and the file f was opened from it
C37_Witness ==
    /\ state.folder_browser_visible
    /\ state.folder_browser_current_dir = <<>>
    /\ state.folder_browser_current_dir_revision = RevisionZero
    /\ state.folder_browser_entries.some
    /\ state.folder_browser_entries.of = <<>>
    /\ DocumentsLen(state) = 2 /\ Active(state).filename = <<102>>

(* C38: in every state reachable from a hidden, unfocused AI dock by       *)
(* Ctrl+Alt+B toggles, close-button presses and Escape presses,            *)
(* ai_dock_focused implies ai_dock_visible: toggling on sets both, and     *)
(* toggling off, the close button and Escape (handled only while focused)  *)
(* clear both.                                                             *)
C38_FocusedImpliesVisible ==
    LET toggled == Shortcuts(state, Key("ctrl_alt_b"))
        closed  == DrawAiDock(state, Click("close"))
        escaped == DrawAiDock(state, Escape)
    IN  /\ state.ai_dock_focused => state.ai_dock_visible
        /\ toggled.ai_dock_visible = ~state.ai_dock_visible
        /\ toggled.ai_dock_focused = ~state.ai_dock_visible
        /\ state.ai_dock_visible => ~closed.ai_dock_visible /\ ~closed.ai_dock_focused
        /\ IF state.ai_dock_visible /\ state.ai_dock_focused
           THEN ~escaped.ai_dock_visible /\ ~escaped.ai_dock_focused
           ELSE escaped = state

\* the first event of the session was Ctrl+Alt+B: the dock is shown and focused
C38_Witness ==
    /\ iters = 1 /\ dispatched = <<TRUE>>
    /\ state.ai_dock_visible /\ state.ai_dock_focused

\* the sizes next to each other
C39_Adjacent ==
    { <<"Minimized", "Default">>, <<"Default", "Minimized">>,
      <<"Default", "Expanded">>, <<"Expanded", "Default">> }

(* C39: the AI dock size changes only between adjacent sizes, one step per *)
(* button press: Minimized to Default (expand), Default to Minimized       *)
(* (minimize) or Expanded (expand), Expanded to Default (minimize); no     *)
(* press goes directly between Minimized and Expanded, and hiding then     *)
(* showing the dock leaves its size unchanged.                             *)
C39_SizeStepsAreAdjacent ==
    /\ [][ /\ state'.ai_dock_size # state.ai_dock_size =>
                /\ state.ai_dock_visible
                /\ <<state.ai_dock_size, state'.ai_dock_size>> \in C39_Adjacent
           /\ state'.ai_dock_visible # state.ai_dock_visible =>
                state'.ai_dock_size = state.ai_dock_size
         ]_vars
    /\ [](state.ai_dock_visible =>
            /\ DrawAiDock(state, Click("expand_up")).ai_dock_size
                 = (IF state.ai_dock_size = "Minimized" THEN "Default" ELSE "Expanded")
            /\ DrawAiDock(state, Click("minimize_down")).ai_dock_size
                 = (IF state.ai_dock_size = "Expanded" THEN "Default" ELSE "Minimized"))
    /\ [](state.ai_dock_size \in {"Minimized", "Default", "Expanded"})

\* the first two events of the session: Ctrl+Alt+B showed the dock at its
\* default size and the minimize button took it one step down
C39_Witness ==
    /\ iters = 1 /\ dispatched = <<TRUE, TRUE>>
    /\ state.ai_dock_visible /\ state.ai_dock_focused
    /\ state.ai_dock_size = "Minimized"

(* C40: for every line and every byte position p below its length,        *)
(* get_syntax_element(line, p) equals highlight_line(line)[p]: both give   *)
(* the highest-precedence category among the matches that cover p, in the  *)
(* order comment, string, keyword, type, number, function, and none when   *)
(* no match covers p; for the Unknown language both give none everywhere.  *)
C40_ElementEqualsHighlight ==
    syntax.calls = 2 => syntax.element = syntax.highlighted[syntax.position + 1]
====
